---- MODULE Spec2Model ----
(***************************************************************************)
(* State-machine model of `rosa create oidc-config`                        *)
(* (cmd/create/oidcconfig/cmd.go) together with the ARN helpers of         *)
(* pkg/aws/helpers.go and the registry client of pkg/ocm/oidc_config.go.   *)
(*                                                                         *)
(* One behaviour is one invocation of the command.  Strings are TLA+       *)
(* strings; Go's fmt.Sprintf is string concatenation.  Every call to an    *)
(* external system (S3, Secrets Manager, IAM, the OCM registry) and every  *)
(* local file write is one action whose outcome (success or error) is      *)
(* chosen by the environment.                                               *)
(***************************************************************************)
EXTENDS Integers, Sequences, FiniteSets, TLC

VARIABLES
    cmdline,            \* the flags as given on the command line (never changes)
    isTerminal,         \* r.Reporter.IsTerminal()
    args,               \* the package variable `args` (cmd.go:56-62)
    mode,               \* local `mode` of run
    interactiveEnabled, \* interactive.Enabled()
    pc,                 \* position of the invocation in run / execute
    exitCode,           \* -1 while running, then the process exit code
    exitAt,             \* label of the os.Exit(1) that ended the run, "" otherwise
    oidcConfigInput,    \* the bundle (OidcConfigInput, cmd.go:268-276)
    strategy,           \* the strategy getOidcConfigStrategy returned
    keyPairs,           \* number of createKeyPair calls made
    assembly,           \* the calls buildOidcConfigInput has made, in order
    secretARN,          \* local `secretARN` of the Auto strategy
    s3Buckets,          \* remote: buckets that exist
    s3Objects,          \* remote: objects that exist
    secrets,            \* remote: secrets that exist
    ocmOidcConfigs,     \* remote: registry records that exist
    calls,              \* log of the calls made to AWS clients and the registry
    files,              \* local files written by helper.SaveDocument
    reporter,           \* messages sent to r.Reporter
    stdout,             \* commands printed by the Manual strategy
    providerRuns,       \* invocations of oidcprovider.Cmd.Run
    unitInput,          \* argument of the helper function applied on its own
    unitResult          \* what that helper function returned

vars == << cmdline, isTerminal, args, mode, interactiveEnabled, pc, exitCode,
           exitAt, oidcConfigInput, strategy, keyPairs, assembly, secretARN,
           s3Buckets,
           s3Objects, secrets, ocmOidcConfigs, calls, files, reporter, stdout,
           providerRuns, unitInput, unitResult >>

-----------------------------------------------------------------------------
(* Go's strings package, on TLA+ strings.                                   *)

CharAt(s, i) == SubSeq(s, i, i)

HasPrefix(s, p) == Len(s) >= Len(p) /\ SubSeq(s, 1, Len(p)) = p

HasSuffix(s, p) == Len(s) >= Len(p) /\ SubSeq(s, Len(s) - Len(p) + 1, Len(s)) = p

Contains(s, sub) ==
    \E i \in 1..(Len(s) - Len(sub) + 1) : SubSeq(s, i, i + Len(sub) - 1) = sub

\* index of the first occurrence of sub at or after position from, 0 if none
IndexFrom(s, sub, from) ==
    LET hits == { i \in from..(Len(s) - Len(sub) + 1) :
                    SubSeq(s, i, i + Len(sub) - 1) = sub }
    IN  IF hits = {} THEN 0 ELSE CHOOSE i \in hits : \A j \in hits : i <= j

LastIndex(s, sub) ==
    LET hits == { i \in 1..(Len(s) - Len(sub) + 1) :
                    SubSeq(s, i, i + Len(sub) - 1) = sub }
    IN  IF hits = {} THEN 0 ELSE CHOOSE i \in hits : \A j \in hits : i >= j

RECURSIVE TrimLeft(_, _)
TrimLeft(s, cutset) ==
    IF Len(s) > 0 /\ Contains(cutset, CharAt(s, 1))
    THEN TrimLeft(SubSeq(s, 2, Len(s)), cutset)
    ELSE s

RECURSIVE TrimRight(_, _)
TrimRight(s, cutset) ==
    IF Len(s) > 0 /\ Contains(cutset, CharAt(s, Len(s)))
    THEN TrimRight(SubSeq(s, 1, Len(s) - 1), cutset)
    ELSE s

Trim(s, cutset) == TrimRight(TrimLeft(s, cutset), cutset)

-----------------------------------------------------------------------------
(* Constants of cmd.go.                                                     *)

defaultLengthRandomLabel == 4
maxLengthUserPrefix == 15

prefixForPrivateKeySecret == "rosa-private-key"
defaultPrefixForConfiguration == "oidc"

discoveryDocumentKey == ".well-known/openid-configuration"

jwksKey_Renamed == "jwks.json"

jwksKey == "keys.json"

ModeAuto == "auto"
ModeManual == "manual"
Modes == {ModeAuto, ModeManual}
DefaultRegion == "us-east-1"
AclPublicRead == "public-read"

-----------------------------------------------------------------------------
(* ARN helpers (pkg/aws/helpers.go) over arn.Parse of the AWS SDK:          *)
(* a string parses iff it starts with "arn:" and has at least five ':' ;    *)
(* the resource is everything after the fifth ':'.                          *)

\* the positions of the ':' separators of s
Colons(s) == { i \in 1..Len(s) : CharAt(s, i) = ":" }

\* strings.SplitN(s, ":", 6): the position of the fifth separator, 0 when
\* there are fewer than five
FifthColon(s) ==
    IF Cardinality(Colons(s)) < 5 THEN 0
    ELSE CHOOSE i \in Colons(s) : Cardinality({ j \in Colons(s) : j < i }) = 4

ArnParse(s) ==
    IF ~HasPrefix(s, "arn:") THEN [err |-> "arn: invalid prefix", Resource |-> ""]
    ELSE IF FifthColon(s) = 0
         THEN [err |-> "arn: not enough sections", Resource |-> ""]
         ELSE [err |-> "", Resource |-> SubSeq(s, FifthColon(s) + 1, Len(s))]

\* the error ARNValidator returns, "" for nil
ARNValidator(str) ==
    IF str = "" THEN ""
    ELSE IF ArnParse(str).err # "" THEN "Invalid ARN: " \o ArnParse(str).err
    ELSE ""

\* the resource id GetResourceIdFromARN returns ("" together with an error)
GetResourceIdFromARN(stringARN) ==
    LET parsedARN == ArnParse(stringARN)
        index     == LastIndex(parsedARN.Resource, "/")
    IN  IF parsedARN.err # "" THEN ""
        ELSE IF index = 0 \/ index = Len(parsedARN.Resource) THEN ""
        ELSE SubSeq(parsedARN.Resource, index + 1, Len(parsedARN.Resource))

-----------------------------------------------------------------------------
(* Bucket-name validation (cmd.go:278-298).                                 *)

LowerLetters == "abcdefghijklmnopqrstuvwxyz"
Digits == "0123456789"

\* regexp ^[a-z][a-z0-9\-]+[a-z0-9]$
MatchesBucketNameRegex(s) ==
    /\ Len(s) >= 3
    /\ Contains(LowerLetters, CharAt(s, 1))
    /\ \A i \in 2..(Len(s) - 1) :
          Contains(LowerLetters \o Digits \o "-", CharAt(s, i))
    /\ Contains(LowerLetters \o Digits, CharAt(s, Len(s)))

\* isValidBucketName without the "-s3alias" test of cmd.go:289
isValidBucketName_NoAliasCheck(bucketName) ==
    IF CharAt(bucketName, 1) = "." \/ CharAt(bucketName, Len(bucketName)) = "."
    THEN FALSE
    ELSE IF HasPrefix(bucketName, "xn--") THEN FALSE
    ELSE IF Contains(bucketName, "..") THEN FALSE
    ELSE MatchesBucketNameRegex(bucketName)

\* bucketName[0] panics on the empty string; every caller passes a name
\* that ends in "oidc-<label>", so the model is only applied to Len >= 1.
isValidBucketName(bucketName) ==
    IF CharAt(bucketName, 1) = "." \/ CharAt(bucketName, Len(bucketName)) = "."
    THEN FALSE
    ELSE IF HasPrefix(bucketName, "xn--") THEN FALSE
    ELSE IF HasSuffix(bucketName, "-s3alias") THEN FALSE
    ELSE IF Contains(bucketName, "..") THEN FALSE
    ELSE MatchesBucketNameRegex(bucketName)

-----------------------------------------------------------------------------
(* Discovery document (cmd.go:685-711): Sprintf of the template with the    *)
(* bucket URL in both places.                                               *)

discoveryDocumentTail ==
    "/keys.json\",\n\t\"response_types_supported\": [\n\t\t\"id_token\"\n\t],\n"
    \o "\t\"subject_types_supported\": [\n\t\t\"public\"\n\t],\n"
    \o "\t\"id_token_signing_alg_values_supported\": [\n\t\t\"RS256\"\n\t],\n"
    \o "\t\"claims_supported\": [\n\t\t\"aud\",\n\t\t\"exp\",\n\t\t\"sub\",\n"
    \o "\t\t\"iat\",\n\t\t\"iss\",\n\t\t\"sub\"\n\t]\n}"

\* the template with a slash after the issuer
generateDiscoveryDocument_IssuerSlash(bucketURL) ==
    "{\n\t\"issuer\": \"" \o bucketURL \o "/\",\n\t\"jwks_uri\": \""
    \o bucketURL \o discoveryDocumentTail

generateDiscoveryDocument(bucketURL) ==
    "{\n\t\"issuer\": \"" \o bucketURL \o "\",\n\t\"jwks_uri\": \""
    \o bucketURL \o discoveryDocumentTail

\* what a JSON reader finds as the string value of a top-level field
JsonStringField(doc, name) ==
    LET key   == "\"" \o name \o "\": \""
        at    == IndexFrom(doc, key, 1)
        start == at + Len(key)
        stop  == IndexFrom(doc, "\"", start)
    IN  IF at = 0 \/ stop = 0 THEN "" ELSE SubSeq(doc, start, stop - 1)

-----------------------------------------------------------------------------
(* Key material (cmd.go:595-683).  An RSA key is named by a short id; its   *)
(* DER and PEM encodings are strings built from the id, and SHA-256 and     *)
(* base64url are injective string constructors.                             *)

KeyIds == {"k1", "k2"}

PemEncode(type, bytes) ==
    "-----BEGIN " \o type \o "-----\n" \o bytes \o "\n-----END " \o type \o "-----\n"

\* pem.Decode: the bytes of the first block, "" when there is none
PemDecode(content) ==
    LET head == IndexFrom(content, "-----\n", 1)
        tail == IndexFrom(content, "\n-----END ", 1)
    IN  IF ~HasPrefix(content, "-----BEGIN ") \/ head = 0 \/ tail = 0 \/ tail < head + 6
        THEN ""
        ELSE SubSeq(content, head + 6, tail - 1)

MarshalPKCS1PrivateKey(k) == "pkcs1:rsa:" \o k
MarshalPKIXPublicKey(k) == "pkix:rsa:" \o k

\* x509.ParsePKIXPublicKey: the key id of an RSA key, "" when the bytes do not parse
ParsePKIXPublicKey(der) ==
    IF HasPrefix(der, "pkix:rsa:") THEN SubSeq(der, 10, Len(der)) ELSE ""

\* the outcomes of createKeyPair: an error, or the two PEM encodings of a fresh key
createKeyPair ==
    { [err |-> "failed to generate private key", privateKey |-> "", publicKey |-> ""] }
    \cup
    { [err |-> "",
       privateKey |-> PemEncode("RSA PRIVATE KEY", MarshalPKCS1PrivateKey(k)),
       publicKey  |-> PemEncode("PUBLIC KEY", MarshalPKIXPublicKey(k))] : k \in KeyIds }

keyIDFromPublicKey(publicKey) ==
    "b64url(sha256(" \o MarshalPKIXPublicKey(publicKey) \o "))"

buildJSONWebKeySet(publicKeyContent) ==
    LET block     == PemDecode(publicKeyContent)
        publicKey == ParsePKIXPublicKey(block)
    IN  IF block = "" THEN [err |-> "Failed to decode PEM file", keySet |-> ""]
        ELSE IF publicKey = "" THEN [err |-> "Failed to parse key content", keySet |-> ""]
        ELSE [err |-> "",
              keySet |-> "{\n    \"keys\": [\n        {\n            \"use\": \"sig\",\n"
                  \o "            \"kty\": \"RSA\",\n            \"kid\": \""
                  \o keyIDFromPublicKey(publicKey)
                  \o "\",\n            \"alg\": \"RS256\",\n            \"n\": \"n("
                  \o publicKey \o ")\",\n            \"e\": \"AQAB\"\n        }\n    ]\n}"]

-----------------------------------------------------------------------------
(* Inputs of one invocation and answers of the environment.                 *)

Prefixes ==
    {"", "foo", " foo\t", "Foo", "abcdefghijklmno", "abcdefghijklmnop",
     "\tabcdefghijklmno "}

InstallerRoleArns ==
    {"", "arn:aws:iam::123456789012:role/Installer", "not-an-arn",
     "arn:aws:iam::123456789012:role"}

Regions == {"us-east-1", "eu-west-1"}

\* helper.RandomLabel(defaultLengthRandomLabel)
RandomLabels == {"ab12", "9xyz"}

PromptError == "<prompt error>"

\* "" is success, anything else the error text of the failed call
CallOutcomes == {"", "AccessDenied"}

\* interactive.GetInstallerRoleArn: the given ARN, or one the user picks
GetInstallerRoleArn(given) == {given, "arn:aws:iam::123456789012:role/Picked-Installer-Role"}

\* interactive.GetString with the MaxLength(maxLengthUserPrefix) validator
PrefixAnswers(default) ==
    { p \in {default, "bar"} : Len(p) <= maxLengthUserPrefix } \cup {PromptError}

\* the ARN Secrets Manager assigns to a new secret
SecretArnOf(name, region) ==
    "arn:aws:secretsmanager:" \o region \o ":123456789012:secret:" \o name \o "-AbCdEf"

\* what the registry puts in the record it returns
RegistryIds == {"23abcd"}
RegistryIssuerUrls(requested) ==
    IF requested = ""
    THEN {"https://rh-oidc.s3.us-east-1.amazonaws.com/23abcd",
          "https://rh-oidc-staging.s3.us-east-1.amazonaws.com/23abcd"}
    ELSE {requested, "https://registry.example.com/23abcd"}

ZeroOidcConfigInput ==
    [BucketName |-> "", IssuerUrl |-> "", PrivateKey |-> "", PrivateKeyFilename |-> "",
     DiscoveryDocument |-> "", Jwks |-> "", PrivateKeySecretName |-> ""]

\* no helper function is applied on its own
NoUnit == [fn |-> "", arg |-> ""]
NoResult == [fn |-> "", arg |-> "", ret |-> ""]

Init ==
    /\ cmdline \in [rawFiles : BOOLEAN, managed : BOOLEAN, userPrefix : Prefixes,
                    installerRoleArn : InstallerRoleArns, mode : Modes \cup {""},
                    yes : BOOLEAN, interactive : BOOLEAN, region : Regions]
    /\ isTerminal \in BOOLEAN
    /\ args = [rawFiles |-> cmdline.rawFiles, managed |-> cmdline.managed,
               userPrefix |-> cmdline.userPrefix,
               installerRoleArn |-> cmdline.installerRoleArn, region |-> ""]
    /\ mode = ""
    /\ interactiveEnabled = cmdline.interactive
    /\ pc = "start"
    /\ exitCode = -1
    /\ exitAt = ""
    /\ oidcConfigInput = ZeroOidcConfigInput
    /\ strategy = ""
    /\ keyPairs = 0
    /\ assembly = << >>
    /\ secretARN = ""
    /\ s3Buckets = {}
    /\ s3Objects = {}
    /\ secrets = {}
    /\ ocmOidcConfigs = {}
    /\ calls = << >>
    /\ files = {}
    /\ reporter = << >>
    /\ stdout = << >>
    /\ providerRuns = << >>
    /\ unitInput = NoUnit
    /\ unitResult = NoResult

-----------------------------------------------------------------------------
(* Shorthands.                                                              *)

inputVars == << cmdline, isTerminal, unitInput, unitResult >>
remoteVars == << s3Buckets, s3Objects, secrets, ocmOidcConfigs, calls >>
outputVars == << files, stdout, providerRuns >>
bundleVars == << oidcConfigInput, strategy, keyPairs, assembly, secretARN >>

Msg(level, text) == [level |-> level, text |-> text]

\* r.Reporter.<level>f(...) for each of msgs, then os.Exit(1)
Exit(label, msgs) ==
    /\ pc' = "exited"
    /\ exitCode' = 1
    /\ exitAt' = label
    /\ reporter' = reporter \o msgs

Goto(label, msgs) ==
    /\ pc' = label
    /\ reporter' = reporter \o msgs
    /\ UNCHANGED << exitCode, exitAt >>

-----------------------------------------------------------------------------
(* run (cmd.go:143-266), up to the call of the strategy.                    *)

\* checkInteractiveModeNeeded (cmd.go:129-141): the new value of interactive.Enabled().
\* A flag counts as changed when its value differs from its default.
checkInteractiveModeNeeded ==
    LET modeNotChanged == cmdline.mode = ""
        modeIsAuto == cmdline.mode = ModeAuto
        installerRoleArnNotSet == args.installerRoleArn = "" /\ ~cmdline.yes
    IN  IF modeNotChanged /\ ~cmdline.rawFiles THEN TRUE
        ELSE IF ~args.managed /\ (modeNotChanged \/ (modeIsAuto /\ installerRoleArnNotSet))
        THEN TRUE
        ELSE interactiveEnabled

\* cmd.go:163-176 with the check of --raw-files against --managed left out
RawFilesConflict_NoManagedCheck(m) ==
    IF args.rawFiles /\ m # ""
    THEN "--raw-files param is not supported alongside --mode param."
    ELSE IF args.rawFiles /\ args.installerRoleArn # ""
    THEN "--raw-files param is not supported alongside --installer-role-arn param"
    ELSE ""

\* cmd.go:163-176: the warning of the first conflict of --raw-files, "" when none
RawFilesConflict(m) ==
    IF args.rawFiles /\ m # ""
    THEN "--raw-files param is not supported alongside --mode param."
    ELSE IF args.rawFiles /\ args.installerRoleArn # ""
    THEN "--raw-files param is not supported alongside --installer-role-arn param"
    ELSE IF args.rawFiles /\ args.managed
    THEN "--raw-files param is not supported alongside --managed param"
    ELSE ""

\* cmd.go:198-206: the warning of the first conflict of --managed, "" when none
ManagedConflict ==
    IF args.managed /\ args.userPrefix # ""
    THEN "--prefix param is not supported for managed OIDC config"
    ELSE IF args.managed /\ args.installerRoleArn # ""
    THEN "--installer-role-arn param is not supported for managed OIDC config"
    ELSE ""

\* cmd.go:143-176: aws.GetMode, aws.GetRegion, checkInteractiveModeNeeded and the
\* conflicts of --raw-files
CheckRawFilesFlags ==
    /\ pc = "start"
    /\ mode' = cmdline.mode
    /\ args' = [args EXCEPT !.region = cmdline.region]
    /\ interactiveEnabled' = checkInteractiveModeNeeded
    /\ IF RawFilesConflict(cmdline.mode) # ""
       THEN Exit("rawFilesConflict", << Msg("WARN", RawFilesConflict(cmdline.mode)) >>)
       ELSE Goto("askMode", << >>)
    /\ UNCHANGED << inputVars, bundleVars, remoteVars, outputVars >>

\* cmd.go:178-206: the interactive choice of the mode, then the conflicts of --managed
AskMode ==
    /\ pc = "askMode"
    /\ LET asking == ~args.rawFiles /\ interactiveEnabled /\ cmdline.mode = ""
           said == IF asking /\ args.managed
                   THEN << Msg("WARN", "For a managed OIDC Config only auto mode is supported. "
                                   \o "However, you may choose the provider creation mode") >>
                   ELSE << >>
       IN  \E answer \in (IF asking THEN Modes \cup {PromptError} ELSE {mode}) :
             IF answer = PromptError
             THEN /\ Exit("modePrompt", said \o << Msg("ERROR",
                        "Expected a valid OIDC provider creation mode: " \o PromptError) >>)
                  /\ UNCHANGED mode
             ELSE /\ mode' = answer
                  /\ IF ManagedConflict # ""
                     THEN Exit("managedConflict", said \o << Msg("WARN", ManagedConflict) >>)
                     ELSE Goto(IF args.managed THEN "buildInput"
                               ELSE IF args.rawFiles THEN "checkPrefix"
                               ELSE "unmanagedPrompts", said)
    /\ UNCHANGED << inputVars, args, interactiveEnabled, bundleVars, remoteVars, outputVars >>

\* cmd.go:208-232: the prompts of an unmanaged, non-raw invocation and ARNValidator
UnmanagedPrompts ==
    /\ pc = "unmanagedPrompts"
    /\ LET info == << Msg("INFO", "This command will create a S3 bucket populating it with "
                        \o "documents to be compliant with OIDC protocol. It will also create "
                        \o "a Secret in Secrets Manager containing the private key") >>
       IN  \E arn \in (IF mode = ModeAuto /\ (interactiveEnabled \/ cmdline.yes)
                       THEN GetInstallerRoleArn(args.installerRoleArn)
                       ELSE {args.installerRoleArn}),
              prefix \in (IF interactiveEnabled THEN PrefixAnswers(args.userPrefix)
                          ELSE {args.userPrefix}) :
             IF prefix = PromptError /\ interactiveEnabled
             THEN /\ args' = [args EXCEPT !.installerRoleArn = arn]
                  /\ Exit("prefixPrompt", info \o << Msg("ERROR",
                        "Expected a valid prefix for the configuration: " \o PromptError) >>)
             ELSE /\ args' = [args EXCEPT !.installerRoleArn = arn, !.userPrefix = prefix]
                  /\ IF ARNValidator(arn) # ""
                     THEN Exit("invalidArn", info \o << Msg("ERROR",
                            "Expected a valid ARN: " \o ARNValidator(arn)) >>)
                     ELSE Goto("checkRole", info)
    /\ UNCHANGED << inputVars, mode, interactiveEnabled, bundleVars, remoteVars, outputVars >>

\* cmd.go:233-244: the lookup of the installer role
CheckRole ==
    /\ pc = "checkRole"
    /\ LET roleName == GetResourceIdFromARN(args.installerRoleArn)
       IN  IF roleName = ""
           THEN /\ Goto("checkPrefix", << >>)
                /\ UNCHANGED calls
           ELSE \E answer \in {"exists", "missing", "AccessDenied"} :
                  /\ calls' = Append(calls, [op |-> "CheckRoleExists",
                                             req |-> [roleName |-> roleName],
                                             ok |-> answer \in {"exists", "missing"}])
                  /\ IF answer = "AccessDenied"
                     THEN Exit("roleLookup", << Msg("ERROR",
                            "There was a problem checking if role '" \o args.installerRoleArn
                            \o "' exists: " \o answer) >>)
                     ELSE IF answer = "missing"
                     THEN Exit("roleMissing", << Msg("ERROR",
                            "Role '" \o args.installerRoleArn \o "' does not exist") >>)
                     ELSE Goto("checkPrefix", << >>)
    /\ UNCHANGED << inputVars, args, mode, interactiveEnabled, bundleVars, s3Buckets,
                    s3Objects, secrets, ocmOidcConfigs, outputVars >>

\* the prefix trimmed but its length not checked
CheckPrefix_NoLengthCheck ==
    /\ pc = "checkPrefix"
    /\ args' = [args EXCEPT !.userPrefix = Trim(args.userPrefix, " \t")]
    /\ Goto("buildInput", << >>)
    /\ UNCHANGED << inputVars, mode, interactiveEnabled, bundleVars, remoteVars, outputVars >>

\* cmd.go:247-254: the prefix is trimmed and its length checked
CheckPrefix ==
    /\ pc = "checkPrefix"
    /\ args' = [args EXCEPT !.userPrefix = Trim(args.userPrefix, " \t")]
    /\ IF Len(Trim(args.userPrefix, " \t")) > maxLengthUserPrefix
       THEN Exit("prefixTooLong", << Msg("ERROR",
              "Expected a valid prefix for the configuration: "
              \o "length of prefix is limited to 15 characters") >>)
       ELSE Goto("buildInput", << >>)
    /\ UNCHANGED << inputVars, mode, interactiveEnabled, bundleVars, remoteVars, outputVars >>

-----------------------------------------------------------------------------
(* buildOidcConfigInput (cmd.go:300-336) and getOidcConfigStrategy          *)
(* (cmd.go:578-593).                                                        *)

\* the bucket name with the user's prefix put last
BucketNameOf_PrefixLast(userPrefix, randomLabel) ==
    IF userPrefix # ""
    THEN defaultPrefixForConfiguration \o "-" \o randomLabel \o "-" \o userPrefix
    ELSE defaultPrefixForConfiguration \o "-" \o randomLabel

BucketNameOf(userPrefix, randomLabel) ==
    IF userPrefix # ""
    THEN userPrefix \o "-" \o defaultPrefixForConfiguration \o "-" \o randomLabel
    ELSE defaultPrefixForConfiguration \o "-" \o randomLabel

BucketUrlOf(bucketName, region) ==
    "https://" \o bucketName \o ".s3." \o region \o ".amazonaws.com"

\* the bundle returned without its Jwks field set
NewOidcConfigInput_NoJwks(bucketName, region, privateKey, jwks) ==
    [BucketName           |-> bucketName,
     IssuerUrl            |-> BucketUrlOf(bucketName, region),
     PrivateKey           |-> privateKey,
     PrivateKeyFilename   |-> prefixForPrivateKeySecret \o "-" \o bucketName \o ".key",
     DiscoveryDocument    |-> generateDiscoveryDocument(BucketUrlOf(bucketName, region)),
     Jwks                 |-> "",
     PrivateKeySecretName |-> prefixForPrivateKeySecret \o "-" \o bucketName]

\* the bundle returned at cmd.go:327-335
NewOidcConfigInput(bucketName, region, privateKey, jwks) ==
    [BucketName           |-> bucketName,
     IssuerUrl            |-> BucketUrlOf(bucketName, region),
     PrivateKey           |-> privateKey,
     PrivateKeyFilename   |-> prefixForPrivateKeySecret \o "-" \o bucketName \o ".key",
     DiscoveryDocument    |-> generateDiscoveryDocument(BucketUrlOf(bucketName, region)),
     Jwks                 |-> jwks,
     PrivateKeySecretName |-> prefixForPrivateKeySecret \o "-" \o bucketName]

\* cmd.go:315-319 with the os.Exit(1) of line 318 missing
buildOidcConfigInput_NoExitOnKeyError ==
    /\ pc = "buildInput"
    /\ IF args.managed
       THEN /\ oidcConfigInput' = ZeroOidcConfigInput
            /\ Goto("selectStrategy", << >>)
            /\ UNCHANGED << keyPairs, assembly >>
       ELSE \E randomLabel \in RandomLabels, keyPair \in createKeyPair :
              LET bucketName == BucketNameOf(args.userPrefix, randomLabel)
                  jwks == buildJSONWebKeySet(keyPair.publicKey)
              IN  IF ~isValidBucketName(bucketName)
                  THEN /\ assembly' = << "isValidBucketName" >>
                       /\ Exit("invalidBucketName", << Msg("ERROR",
                              "The bucket name '" \o bucketName \o "' is not valid") >>)
                       /\ UNCHANGED << oidcConfigInput, keyPairs >>
                  ELSE /\ keyPairs' = keyPairs + 1
                       /\ IF keyPair.err # ""
                          THEN /\ assembly' = << "isValidBucketName", "createKeyPair" >>
                               /\ Goto("selectStrategy", << Msg("ERROR",
                                      "There was a problem generating key pair: "
                                      \o keyPair.err) >>)
                               /\ oidcConfigInput' = NewOidcConfigInput(bucketName,
                                      args.region, keyPair.privateKey, "")
                          ELSE /\ assembly' = << "isValidBucketName", "createKeyPair",
                                                 "generateDiscoveryDocument",
                                                 "buildJSONWebKeySet" >>
                               /\ IF jwks.err # ""
                                  THEN /\ Exit("jwks", << Msg("ERROR",
                                              "There was a problem generating JSON Web Key Set: "
                                              \o jwks.err) >>)
                                       /\ UNCHANGED oidcConfigInput
                                  ELSE /\ oidcConfigInput' = NewOidcConfigInput(bucketName,
                                              args.region, keyPair.privateKey, jwks.keySet)
                                       /\ Goto("selectStrategy", << >>)
    /\ UNCHANGED << inputVars, args, mode, interactiveEnabled, strategy, secretARN,
                    remoteVars, outputVars >>

\* createKeyPair called before isValidBucketName
buildOidcConfigInput_KeyPairFirst ==
    /\ pc = "buildInput"
    /\ IF args.managed
       THEN /\ oidcConfigInput' = ZeroOidcConfigInput
            /\ Goto("selectStrategy", << >>)
            /\ UNCHANGED << keyPairs, assembly >>
       ELSE \E randomLabel \in RandomLabels, keyPair \in createKeyPair :
              LET bucketName == BucketNameOf(args.userPrefix, randomLabel)
                  jwks == buildJSONWebKeySet(keyPair.publicKey)
              IN  IF ~isValidBucketName(bucketName)
                  THEN /\ assembly' = << "createKeyPair", "isValidBucketName" >>
                       /\ Exit("invalidBucketName", << Msg("ERROR",
                              "The bucket name '" \o bucketName \o "' is not valid") >>)
                       /\ keyPairs' = keyPairs + 1
                       /\ UNCHANGED oidcConfigInput
                  ELSE /\ keyPairs' = keyPairs + 1
                       /\ IF keyPair.err # ""
                          THEN /\ assembly' = << "isValidBucketName", "createKeyPair" >>
                               /\ Exit("keyPair", << Msg("ERROR",
                                      "There was a problem generating key pair: "
                                      \o keyPair.err) >>)
                               /\ UNCHANGED oidcConfigInput
                          ELSE /\ assembly' = << "isValidBucketName", "createKeyPair",
                                                 "generateDiscoveryDocument",
                                                 "buildJSONWebKeySet" >>
                               /\ IF jwks.err # ""
                                  THEN /\ Exit("jwks", << Msg("ERROR",
                                              "There was a problem generating JSON Web Key Set: "
                                              \o jwks.err) >>)
                                       /\ UNCHANGED oidcConfigInput
                                  ELSE /\ oidcConfigInput' = NewOidcConfigInput(bucketName,
                                              args.region, keyPair.privateKey, jwks.keySet)
                                       /\ Goto("selectStrategy", << >>)
    /\ UNCHANGED << inputVars, args, mode, interactiveEnabled, strategy, secretARN,
                    remoteVars, outputVars >>

\* cmd.go:300-336
buildOidcConfigInput ==
    /\ pc = "buildInput"
    /\ IF args.managed
       THEN /\ oidcConfigInput' = ZeroOidcConfigInput
            /\ Goto("selectStrategy", << >>)
            /\ UNCHANGED << keyPairs, assembly >>
       ELSE \E randomLabel \in RandomLabels, keyPair \in createKeyPair :
              LET bucketName == BucketNameOf(args.userPrefix, randomLabel)
                  jwks == buildJSONWebKeySet(keyPair.publicKey)
              IN  IF ~isValidBucketName(bucketName)
                  THEN /\ assembly' = << "isValidBucketName" >>
                       /\ Exit("invalidBucketName", << Msg("ERROR",
                              "The bucket name '" \o bucketName \o "' is not valid") >>)
                       /\ UNCHANGED << oidcConfigInput, keyPairs >>
                  ELSE /\ keyPairs' = keyPairs + 1
                       /\ IF keyPair.err # ""
                          THEN /\ assembly' = << "isValidBucketName", "createKeyPair" >>
                               /\ Exit("keyPair", << Msg("ERROR",
                                      "There was a problem generating key pair: "
                                      \o keyPair.err) >>)
                               /\ UNCHANGED oidcConfigInput
                          ELSE /\ assembly' = << "isValidBucketName", "createKeyPair",
                                                 "generateDiscoveryDocument",
                                                 "buildJSONWebKeySet" >>
                               /\ IF jwks.err # ""
                                  THEN /\ Exit("jwks", << Msg("ERROR",
                                              "There was a problem generating JSON Web Key Set: "
                                              \o jwks.err) >>)
                                       /\ UNCHANGED oidcConfigInput
                                  ELSE /\ oidcConfigInput' = NewOidcConfigInput(bucketName,
                                              args.region, keyPair.privateKey, jwks.keySet)
                                       /\ Goto("selectStrategy", << >>)
    /\ UNCHANGED << inputVars, args, mode, interactiveEnabled, strategy, secretARN,
                    remoteVars, outputVars >>

\* dispatch with the manual case returning the Auto strategy
getOidcConfigStrategy_ManualAsAuto(m, rawFiles, managed) ==
    IF rawFiles THEN "Raw"
    ELSE IF managed THEN "ManagedAuto"
    ELSE IF m = ModeAuto THEN "UnmanagedAuto"
    ELSE IF m = ModeManual THEN "UnmanagedAuto"
    ELSE ""

\* the strategy selected, "" for the error "Invalid mode"
getOidcConfigStrategy(m, rawFiles, managed) ==
    IF rawFiles THEN "Raw"
    ELSE IF managed THEN "ManagedAuto"
    ELSE IF m = ModeAuto THEN "UnmanagedAuto"
    ELSE IF m = ModeManual THEN "UnmanagedManual"
    ELSE ""

FirstStep(s) ==
    CASE s = "Raw" -> "raw.SavePrivateKey"
      [] s = "ManagedAuto" -> "managed.CreateOidcConfig"
      [] s = "UnmanagedAuto" -> "auto.CreateS3Bucket"
      [] s = "UnmanagedManual" -> "manual.SavePrivateKey"

\* cmd.go:257-262
SelectStrategy ==
    /\ pc = "selectStrategy"
    /\ LET s == getOidcConfigStrategy(mode, args.rawFiles, args.managed)
       IN  IF s = ""
           THEN /\ Exit("invalidMode", << Msg("ERROR",
                       "Invalid mode. Allowed values are [auto manual]") >>)
                /\ UNCHANGED strategy
           ELSE /\ strategy' = s
                /\ Goto(FirstStep(s), << >>)
    /\ UNCHANGED << inputVars, args, mode, interactiveEnabled, oidcConfigInput, keyPairs,
                    assembly,
                    secretARN, remoteVars, outputVars >>

-----------------------------------------------------------------------------
(* CreateUnmanagedOidcConfigAutoStrategy.execute (cmd.go:383-451).          *)
(* Each call of r.AWSClient / r.OCMClient is one action; the environment    *)
(* chooses whether it returns an error.                                     *)

Call(op, req, err) == [op |-> op, req |-> req, ok |-> (err = "")]

strategyVars == << inputVars, args, mode, interactiveEnabled, strategy, keyPairs,
                  assembly >>

\* cmd.go:391-403 with the os.Exit(1) of line 402 missing
AutoCreateS3Bucket_NoExit ==
    /\ pc = "auto.CreateS3Bucket"
    /\ LET bucketName == oidcConfigInput.BucketName
           said == IF isTerminal
                   THEN << Msg("INFO", "Setting up unmanaged OIDC configuration '"
                                       \o bucketName \o "'") >>
                   ELSE << >>
       IN  \E err \in CallOutcomes :
             /\ calls' = Append(calls, Call("CreateS3Bucket",
                             [bucketName |-> bucketName, region |-> args.region], err))
             /\ IF err # ""
                THEN /\ Goto("auto.PutDiscoveryDocument", said \o << Msg("ERROR",
                            "There was a problem creating S3 bucket '" \o bucketName
                            \o "': " \o err) >>)
                     /\ UNCHANGED s3Buckets
                ELSE /\ s3Buckets' = s3Buckets \cup
                            {[name |-> bucketName, region |-> args.region]}
                     /\ Goto("auto.PutDiscoveryDocument", said)
    /\ UNCHANGED << strategyVars, oidcConfigInput, secretARN, s3Objects, secrets,
                    ocmOidcConfigs, outputVars >>

\* cmd.go:391-403
AutoCreateS3Bucket ==
    /\ pc = "auto.CreateS3Bucket"
    /\ LET bucketName == oidcConfigInput.BucketName
           said == IF isTerminal
                   THEN << Msg("INFO", "Setting up unmanaged OIDC configuration '"
                                       \o bucketName \o "'") >>
                   ELSE << >>
       IN  \E err \in CallOutcomes :
             /\ calls' = Append(calls, Call("CreateS3Bucket",
                             [bucketName |-> bucketName, region |-> args.region], err))
             /\ IF err # ""
                THEN /\ Exit("auto.CreateS3Bucket", said \o << Msg("ERROR",
                            "There was a problem creating S3 bucket '" \o bucketName
                            \o "': " \o err) >>)
                     /\ UNCHANGED s3Buckets
                ELSE /\ s3Buckets' = s3Buckets \cup
                            {[name |-> bucketName, region |-> args.region]}
                     /\ Goto("auto.PutDiscoveryDocument", said)
    /\ UNCHANGED << strategyVars, oidcConfigInput, secretARN, s3Objects, secrets,
                    ocmOidcConfigs, outputVars >>

\* cmd.go:404-410 with a failed first upload attempted a second time
AutoPutDiscoveryDocument_RetriesOnce ==
    /\ pc = "auto.PutDiscoveryDocument"
    /\ LET bucketName == oidcConfigInput.BucketName
       IN  \E err \in CallOutcomes :
             /\ calls' = Append(calls, Call("PutPublicReadObjectInS3Bucket",
                             [bucketName |-> bucketName, key |-> discoveryDocumentKey,
                              body |-> oidcConfigInput.DiscoveryDocument], err))
             /\ IF err # "" /\ calls[Len(calls)].op = "CreateS3Bucket"
                THEN /\ Goto("auto.PutDiscoveryDocument", << >>)
                     /\ UNCHANGED s3Objects
                ELSE IF err # ""
                THEN /\ Exit("auto.PutDiscoveryDocument", << Msg("ERROR",
                            "There was a problem populating discovery document to S3 bucket '"
                            \o bucketName \o "': " \o err) >>)
                     /\ UNCHANGED s3Objects
                ELSE /\ s3Objects' = s3Objects \cup
                            {[bucket |-> bucketName, key |-> discoveryDocumentKey,
                              body |-> oidcConfigInput.DiscoveryDocument,
                              acl |-> AclPublicRead]}
                     /\ Goto("auto.PutJwks", << >>)
    /\ UNCHANGED << strategyVars, oidcConfigInput, secretARN, s3Buckets, secrets,
                    ocmOidcConfigs, outputVars >>

\* cmd.go:404-410
AutoPutDiscoveryDocument ==
    /\ pc = "auto.PutDiscoveryDocument"
    /\ LET bucketName == oidcConfigInput.BucketName
       IN  \E err \in CallOutcomes :
             /\ calls' = Append(calls, Call("PutPublicReadObjectInS3Bucket",
                             [bucketName |-> bucketName, key |-> discoveryDocumentKey,
                              body |-> oidcConfigInput.DiscoveryDocument], err))
             /\ IF err # ""
                THEN /\ Exit("auto.PutDiscoveryDocument", << Msg("ERROR",
                            "There was a problem populating discovery document to S3 bucket '"
                            \o bucketName \o "': " \o err) >>)
                     /\ UNCHANGED s3Objects
                ELSE /\ s3Objects' = s3Objects \cup
                            {[bucket |-> bucketName, key |-> discoveryDocumentKey,
                              body |-> oidcConfigInput.DiscoveryDocument,
                              acl |-> AclPublicRead]}
                     /\ Goto("auto.PutJwks", << >>)
    /\ UNCHANGED << strategyVars, oidcConfigInput, secretARN, s3Buckets, secrets,
                    ocmOidcConfigs, outputVars >>

\* cmd.go:411-419
AutoPutJwks ==
    /\ pc = "auto.PutJwks"
    /\ LET bucketName == oidcConfigInput.BucketName
       IN  \E err \in CallOutcomes :
             /\ calls' = Append(calls, Call("PutPublicReadObjectInS3Bucket",
                             [bucketName |-> bucketName, key |-> jwksKey,
                              body |-> oidcConfigInput.Jwks], err))
             /\ IF err # ""
                THEN /\ Exit("auto.PutJwks", << Msg("ERROR",
                            "There was a problem populating JWKS to S3 bucket '"
                            \o bucketName \o "': " \o err) >>)
                     /\ UNCHANGED s3Objects
                ELSE /\ s3Objects' = s3Objects \cup
                            {[bucket |-> bucketName, key |-> jwksKey,
                              body |-> oidcConfigInput.Jwks, acl |-> AclPublicRead]}
                     /\ Goto("auto.CreateSecret", << >>)
    /\ UNCHANGED << strategyVars, oidcConfigInput, secretARN, s3Buckets, secrets,
                    ocmOidcConfigs, outputVars >>

\* cmd.go:420-424 with the os.Exit(1) of line 423 missing
AutoCreateSecret_NoExit ==
    /\ pc = "auto.CreateSecret"
    /\ LET name == oidcConfigInput.PrivateKeySecretName
       IN  \E err \in CallOutcomes :
             /\ calls' = Append(calls, Call("CreateSecretInSecretsManager",
                             [name |-> name, value |-> oidcConfigInput.PrivateKey], err))
             /\ IF err # ""
                THEN /\ Goto("auto.CreateOidcConfig", << Msg("ERROR",
                            "There was a problem saving private key to secrets manager: "
                            \o err) >>)
                     /\ UNCHANGED << secrets, secretARN >>
                ELSE /\ secretARN' = SecretArnOf(name, args.region)
                     /\ secrets' = secrets \cup
                            {[name |-> name, value |-> oidcConfigInput.PrivateKey,
                              arn |-> SecretArnOf(name, args.region)]}
                     /\ Goto("auto.CreateOidcConfig", << >>)
    /\ UNCHANGED << strategyVars, oidcConfigInput, s3Buckets, s3Objects,
                    ocmOidcConfigs, outputVars >>

\* cmd.go:420-424
AutoCreateSecret ==
    /\ pc = "auto.CreateSecret"
    /\ LET name == oidcConfigInput.PrivateKeySecretName
       IN  \E err \in CallOutcomes :
             /\ calls' = Append(calls, Call("CreateSecretInSecretsManager",
                             [name |-> name, value |-> oidcConfigInput.PrivateKey], err))
             /\ IF err # ""
                THEN /\ Exit("auto.CreateSecret", << Msg("ERROR",
                            "There was a problem saving private key to secrets manager: "
                            \o err) >>)
                     /\ UNCHANGED << secrets, secretARN >>
                ELSE /\ secretARN' = SecretArnOf(name, args.region)
                     /\ secrets' = secrets \cup
                            {[name |-> name, value |-> oidcConfigInput.PrivateKey,
                              arn |-> SecretArnOf(name, args.region)]}
                     /\ Goto("auto.CreateOidcConfig", << >>)
    /\ UNCHANGED << strategyVars, oidcConfigInput, s3Buckets, s3Objects,
                    ocmOidcConfigs, outputVars >>


\* v1.NewOidcConfig()...Build(): the builder has no failing path, so err is nil
OidcConfigRequest(managed, secretArn, issuerUrl, installerRoleArn) ==
    [managed |-> managed, secretArn |-> secretArn, issuerUrl |-> issuerUrl,
     installerRoleArn |-> installerRoleArn]

CreatedText(id) ==
    "Please run the following command to create a cluster with this oidc config"
    \o "\nrosa create cluster --sts --oidc-config-id " \o id

\* cmd.go:425-451 with a rollback of the secret when the registry call fails
AutoCreateOidcConfig_Rollback ==
    /\ pc = "auto.CreateOidcConfig"
    /\ LET bucketUrl == oidcConfigInput.IssuerUrl
           request == OidcConfigRequest(FALSE, secretARN, bucketUrl, args.installerRoleArn)
       IN  \E err \in CallOutcomes, id \in RegistryIds, url \in RegistryIssuerUrls(bucketUrl) :
             IF err # ""
             THEN /\ calls' = calls \o << Call("CreateOidcConfig", request, err),
                                         Call("DeleteSecret", [arn |-> secretARN], "") >>
                  /\ secrets' = { x \in secrets : x.arn # secretARN }
                  /\ Exit("auto.CreateOidcConfig",
                          << Msg("ERROR", "There was a problem building your unmanaged OIDC "
                                 \o "Configuration with OCM: " \o err \o ".\nPlease refer to "
                                 \o "documentation and try again through OCM CLI."),
                             Msg("WARN", "Secret ARN: " \o secretARN \o "\tBucketUrl: "
                                 \o bucketUrl) >>)
                  /\ UNCHANGED << ocmOidcConfigs, oidcConfigInput >>
             ELSE /\ calls' = Append(calls, Call("CreateOidcConfig", request, err))
                  /\ ocmOidcConfigs' = ocmOidcConfigs \cup
                            {[id |-> id, issuerUrl |-> url, request |-> request]}
                  /\ Goto("afterExecute",
                          IF isTerminal THEN << Msg("INFO", CreatedText(id)) >> ELSE << >>)
                  /\ UNCHANGED << secrets, oidcConfigInput >>
    /\ UNCHANGED << strategyVars, secretARN, s3Buckets, s3Objects, outputVars >>

\* cmd.go:425-451 with the bundle's issuer URL replaced by the registry's answer
AutoCreateOidcConfig_TakesRegistryUrl ==
    /\ pc = "auto.CreateOidcConfig"
    /\ LET bucketUrl == oidcConfigInput.IssuerUrl
           request == OidcConfigRequest(FALSE, secretARN, bucketUrl, args.installerRoleArn)
       IN  \E err \in CallOutcomes, id \in RegistryIds, url \in RegistryIssuerUrls(bucketUrl) :
             /\ calls' = Append(calls, Call("CreateOidcConfig", request, err))
             /\ IF err # ""
                THEN /\ Exit("auto.CreateOidcConfig",
                          << Msg("ERROR", "There was a problem building your unmanaged OIDC "
                                 \o "Configuration with OCM: " \o err \o ".\nPlease refer to "
                                 \o "documentation and try again through OCM CLI."),
                             Msg("WARN", "Secret ARN: " \o secretARN \o "\tBucketUrl: "
                                 \o bucketUrl) >>)
                     /\ UNCHANGED << ocmOidcConfigs, oidcConfigInput >>
                ELSE /\ ocmOidcConfigs' = ocmOidcConfigs \cup
                            {[id |-> id, issuerUrl |-> url, request |-> request]}
                     /\ oidcConfigInput' = [oidcConfigInput EXCEPT !.IssuerUrl = url]
                     /\ Goto("afterExecute",
                             IF isTerminal THEN << Msg("INFO", CreatedText(id)) >> ELSE << >>)
    /\ UNCHANGED << strategyVars, secretARN, s3Buckets, s3Objects, secrets, outputVars >>

\* cmd.go:425-451, with Client.CreateOidcConfig (oidc_config.go:43-52)
AutoCreateOidcConfig ==
    /\ pc = "auto.CreateOidcConfig"
    /\ LET bucketUrl == oidcConfigInput.IssuerUrl
           request == OidcConfigRequest(FALSE, secretARN, bucketUrl, args.installerRoleArn)
       IN  \E err \in CallOutcomes, id \in RegistryIds, url \in RegistryIssuerUrls(bucketUrl) :
             /\ calls' = Append(calls, Call("CreateOidcConfig", request, err))
             /\ IF err # ""
                THEN /\ Exit("auto.CreateOidcConfig",
                          << Msg("ERROR", "There was a problem building your unmanaged OIDC "
                                 \o "Configuration with OCM: " \o err \o ".\nPlease refer to "
                                 \o "documentation and try again through OCM CLI."),
                             Msg("WARN", "Secret ARN: " \o secretARN \o "\tBucketUrl: "
                                 \o bucketUrl) >>)
                     /\ UNCHANGED ocmOidcConfigs
                ELSE /\ ocmOidcConfigs' = ocmOidcConfigs \cup
                            {[id |-> id, issuerUrl |-> url, request |-> request]}
                     /\ Goto("afterExecute",
                             IF isTerminal THEN << Msg("INFO", CreatedText(id)) >> ELSE << >>)
    /\ UNCHANGED << strategyVars, oidcConfigInput, secretARN, s3Buckets, s3Objects,
                    secrets, outputVars >>

-----------------------------------------------------------------------------
(* CreateManagedOidcConfigAutoStrategy.execute (cmd.go:545-576).            *)

\* cmd.go:545-576 with the assignment of line 575 missing
ManagedCreateOidcConfig_NoIssuerUpdate ==
    /\ pc = "managed.CreateOidcConfig"
    /\ LET said == IF isTerminal
                   THEN << Msg("INFO", "Setting up managed OIDC configuration") >>
                   ELSE << >>
           request == OidcConfigRequest(TRUE, "", "", "")
       IN  \E err \in CallOutcomes, id \in RegistryIds, url \in RegistryIssuerUrls("") :
             /\ calls' = Append(calls, Call("CreateOidcConfig", request, err))
             /\ IF err # ""
                THEN /\ Exit("managed.CreateOidcConfig", said \o << Msg("ERROR",
                            "There was a problem registering your managed OIDC Configuration: "
                            \o err) >>)
                     /\ UNCHANGED ocmOidcConfigs
                ELSE /\ ocmOidcConfigs' = ocmOidcConfigs \cup
                            {[id |-> id, issuerUrl |-> url, request |-> request]}
                     /\ Goto("afterExecute", said \o
                             (IF isTerminal THEN << Msg("INFO", CreatedText(id)) >> ELSE << >>))
    /\ UNCHANGED << strategyVars, oidcConfigInput, secretARN, s3Buckets, s3Objects, secrets,
                    outputVars >>

ManagedCreateOidcConfig ==
    /\ pc = "managed.CreateOidcConfig"
    /\ LET said == IF isTerminal
                   THEN << Msg("INFO", "Setting up managed OIDC configuration") >>
                   ELSE << >>
           request == OidcConfigRequest(TRUE, "", "", "")
       IN  \E err \in CallOutcomes, id \in RegistryIds, url \in RegistryIssuerUrls("") :
             /\ calls' = Append(calls, Call("CreateOidcConfig", request, err))
             /\ IF err # ""
                THEN /\ Exit("managed.CreateOidcConfig", said \o << Msg("ERROR",
                            "There was a problem registering your managed OIDC Configuration: "
                            \o err) >>)
                     /\ UNCHANGED << ocmOidcConfigs, oidcConfigInput >>
                ELSE /\ ocmOidcConfigs' = ocmOidcConfigs \cup
                            {[id |-> id, issuerUrl |-> url, request |-> request]}
                     /\ oidcConfigInput' = [oidcConfigInput EXCEPT !.IssuerUrl = url]
                     /\ Goto("afterExecute", said \o
                             (IF isTerminal THEN << Msg("INFO", CreatedText(id)) >> ELSE << >>))
    /\ UNCHANGED << strategyVars, secretARN, s3Buckets, s3Objects, secrets, outputVars >>

-----------------------------------------------------------------------------
(* CreateUnmanagedOidcConfigRawStrategy.execute (cmd.go:346-372).           *)
(* helper.SaveDocument writes one local file or returns an error.           *)

DiscoveryDocumentFilename(bucketName) == "discovery-document-" \o bucketName \o ".json"
JwksFilename(bucketName) == "jwks-" \o bucketName \o ".json"

File(name, content) == [name |-> name, content |-> content]

\* the Raw strategy wiping the private key from the bundle once it is saved
RawSavePrivateKey_ClearsKey ==
    /\ pc = "raw.SavePrivateKey"
    /\ \E err \in CallOutcomes :
         IF err # ""
         THEN /\ Exit("raw.SavePrivateKey", << Msg("ERROR",
                     "There was a problem saving private key to a file: " \o err) >>)
              /\ UNCHANGED files
         ELSE /\ files' = files \cup {File(oidcConfigInput.PrivateKeyFilename,
                                           oidcConfigInput.PrivateKey)}
              /\ Goto("raw.SaveDiscoveryDocument", << >>)
    /\ oidcConfigInput' = [oidcConfigInput EXCEPT !.PrivateKey = ""]
    /\ UNCHANGED << strategyVars, secretARN, remoteVars, stdout, providerRuns >>

\* cmd.go:347-356
RawSavePrivateKey ==
    /\ pc = "raw.SavePrivateKey"
    /\ \E err \in CallOutcomes :
         IF err # ""
         THEN /\ Exit("raw.SavePrivateKey", << Msg("ERROR",
                     "There was a problem saving private key to a file: " \o err) >>)
              /\ UNCHANGED files
         ELSE /\ files' = files \cup {File(oidcConfigInput.PrivateKeyFilename,
                                           oidcConfigInput.PrivateKey)}
              /\ Goto("raw.SaveDiscoveryDocument", << >>)
    /\ UNCHANGED << strategyVars, oidcConfigInput, secretARN, remoteVars, stdout,
                    providerRuns >>

RawSaveDiscoveryDocument ==
    /\ pc = "raw.SaveDiscoveryDocument"
    /\ \E err \in CallOutcomes :
         IF err # ""
         THEN /\ Exit("raw.SaveDiscoveryDocument", << Msg("ERROR",
                     "There was a problem saving discovery document to a file: " \o err) >>)
              /\ UNCHANGED files
         ELSE /\ files' = files \cup
                     {File(DiscoveryDocumentFilename(oidcConfigInput.BucketName),
                           oidcConfigInput.DiscoveryDocument)}
              /\ Goto("raw.SaveJwks", << >>)
    /\ UNCHANGED << strategyVars, oidcConfigInput, secretARN, remoteVars, stdout,
                    providerRuns >>

\* the last file write of the Raw strategy blocking for ever when it fails
RawSaveJwks_BlocksOnError ==
    /\ pc = "raw.SaveJwks"
    /\ \E err \in CallOutcomes :
         IF err # ""
         THEN /\ pc' = "raw.SaveJwks.blocked"
              /\ UNCHANGED << files, reporter, exitCode, exitAt >>
         ELSE /\ files' = files \cup {File(JwksFilename(oidcConfigInput.BucketName),
                                           oidcConfigInput.Jwks)}
              /\ Goto("afterExecute",
                      IF isTerminal
                      THEN << Msg("INFO", "Please refer to documentation to use generated "
                                  \o "files to create an OIDC compliant configuration.") >>
                      ELSE << >>)
    /\ UNCHANGED << strategyVars, oidcConfigInput, secretARN, remoteVars, stdout,
                    providerRuns >>

RawSaveJwks ==
    /\ pc = "raw.SaveJwks"
    /\ \E err \in CallOutcomes :
         IF err # ""
         THEN /\ Exit("raw.SaveJwks", << Msg("ERROR",
                     "There was a problem saving JSON Web Key Set to a file: " \o err) >>)
              /\ UNCHANGED files
         ELSE /\ files' = files \cup {File(JwksFilename(oidcConfigInput.BucketName),
                                           oidcConfigInput.Jwks)}
              /\ Goto("afterExecute",
                      IF isTerminal
                      THEN << Msg("INFO", "Please refer to documentation to use generated "
                                  \o "files to create an OIDC compliant configuration.") >>
                      ELSE << >>)
    /\ UNCHANGED << strategyVars, oidcConfigInput, secretARN, remoteVars, stdout,
                    providerRuns >>

-----------------------------------------------------------------------------
(* CreateUnmanagedOidcConfigManualStrategy.execute (cmd.go:457-539).        *)
(* A command of the awscb builders is a record of its service, its command  *)
(* and its parameters in the order they are added.                          *)

RedHatManaged == "red-hat-managed"

AwsCommand(service, command, params) ==
    [service |-> service, command |-> command, params |-> params]

RmCommand(file) == AwsCommand("sh", "rm", << << "file", file >> >>)

\* the list `commands` with the JWKS put at the key of the discovery document
ManualCommands_JwksAtDiscoveryKey(input, region) ==
    << AwsCommand("s3api", "create-bucket",
           << << "bucket", input.BucketName >>,
              << "create-bucket-configuration",
                 IF region # DefaultRegion THEN "LocationConstraint=" \o region ELSE "" >>,
              << "region", region >> >>),
       AwsCommand("s3api", "put-bucket-tagging",
           << << "bucket", input.BucketName >>,
              << "tagging", "'TagSet=[{Key=" \o RedHatManaged \o ",Value=true}]'" >> >>),
       AwsCommand("s3api", "put-object",
           << << "acl", AclPublicRead >>,
              << "body", "./" \o DiscoveryDocumentFilename(input.BucketName) >>,
              << "bucket", input.BucketName >>,
              << "key", discoveryDocumentKey >>,
              << "tagging", "'" \o RedHatManaged \o "=true'" >> >>),
       RmCommand(DiscoveryDocumentFilename(input.BucketName)),
       AwsCommand("s3api", "put-object",
           << << "acl", AclPublicRead >>,
              << "body", "./" \o JwksFilename(input.BucketName) >>,
              << "bucket", input.BucketName >>,
              << "key", discoveryDocumentKey >>,
              << "tagging", "'" \o RedHatManaged \o "=true'" >> >>),
       RmCommand(JwksFilename(input.BucketName)),
       AwsCommand("secretsmanager", "create-secret",
           << << "name", input.PrivateKeySecretName >>,
              << "secret-string", "file://" \o input.PrivateKeyFilename >>,
              << "description", "\"Secret for " \o input.BucketName \o "\"" >>,
              << "region", region >>,
              << "tags", "Key=" \o RedHatManaged \o ",Value=true" >> >>),
       RmCommand(input.PrivateKeyFilename) >>

\* the list `commands` with the private key itself as the secret string
ManualCommands_InlineSecret(input, region) ==
    << AwsCommand("s3api", "create-bucket",
           << << "bucket", input.BucketName >>,
              << "create-bucket-configuration",
                 IF region # DefaultRegion THEN "LocationConstraint=" \o region ELSE "" >>,
              << "region", region >> >>),
       AwsCommand("s3api", "put-bucket-tagging",
           << << "bucket", input.BucketName >>,
              << "tagging", "'TagSet=[{Key=" \o RedHatManaged \o ",Value=true}]'" >> >>),
       AwsCommand("s3api", "put-object",
           << << "acl", AclPublicRead >>,
              << "body", "./" \o DiscoveryDocumentFilename(input.BucketName) >>,
              << "bucket", input.BucketName >>,
              << "key", discoveryDocumentKey >>,
              << "tagging", "'" \o RedHatManaged \o "=true'" >> >>),
       RmCommand(DiscoveryDocumentFilename(input.BucketName)),
       AwsCommand("s3api", "put-object",
           << << "acl", AclPublicRead >>,
              << "body", "./" \o JwksFilename(input.BucketName) >>,
              << "bucket", input.BucketName >>,
              << "key", jwksKey >>,
              << "tagging", "'" \o RedHatManaged \o "=true'" >> >>),
       RmCommand(JwksFilename(input.BucketName)),
       AwsCommand("secretsmanager", "create-secret",
           << << "name", input.PrivateKeySecretName >>,
              << "secret-string", input.PrivateKey >>,
              << "description", "\"Secret for " \o input.BucketName \o "\"" >>,
              << "region", region >>,
              << "tags", "Key=" \o RedHatManaged \o ",Value=true" >> >>),
       RmCommand(input.PrivateKeyFilename) >>

\* the list `commands` as it stands at cmd.go:533
ManualCommands(input, region) ==
    << AwsCommand("s3api", "create-bucket",
           << << "bucket", input.BucketName >>,
              << "create-bucket-configuration",
                 IF region # DefaultRegion THEN "LocationConstraint=" \o region ELSE "" >>,
              << "region", region >> >>),
       AwsCommand("s3api", "put-bucket-tagging",
           << << "bucket", input.BucketName >>,
              << "tagging", "'TagSet=[{Key=" \o RedHatManaged \o ",Value=true}]'" >> >>),
       AwsCommand("s3api", "put-object",
           << << "acl", AclPublicRead >>,
              << "body", "./" \o DiscoveryDocumentFilename(input.BucketName) >>,
              << "bucket", input.BucketName >>,
              << "key", discoveryDocumentKey >>,
              << "tagging", "'" \o RedHatManaged \o "=true'" >> >>),
       RmCommand(DiscoveryDocumentFilename(input.BucketName)),
       AwsCommand("s3api", "put-object",
           << << "acl", AclPublicRead >>,
              << "body", "./" \o JwksFilename(input.BucketName) >>,
              << "bucket", input.BucketName >>,
              << "key", jwksKey >>,
              << "tagging", "'" \o RedHatManaged \o "=true'" >> >>),
       RmCommand(JwksFilename(input.BucketName)),
       AwsCommand("secretsmanager", "create-secret",
           << << "name", input.PrivateKeySecretName >>,
              << "secret-string", "file://" \o input.PrivateKeyFilename >>,
              << "description", "\"Secret for " \o input.BucketName \o "\"" >>,
              << "region", region >>,
              << "tags", "Key=" \o RedHatManaged \o ",Value=true" >> >>),
       RmCommand(input.PrivateKeyFilename) >>

\* cmd.go:458-469
ManualSavePrivateKey ==
    /\ pc = "manual.SavePrivateKey"
    /\ \E err \in CallOutcomes :
         IF err # ""
         THEN /\ Exit("manual.SavePrivateKey", << Msg("ERROR",
                     "There was a problem saving private key to a file: " \o err) >>)
              /\ UNCHANGED files
         ELSE /\ files' = files \cup {File(oidcConfigInput.PrivateKeyFilename,
                                           oidcConfigInput.PrivateKey)}
              /\ Goto("manual.SaveDiscoveryDocument", << >>)
    /\ UNCHANGED << strategyVars, oidcConfigInput, secretARN, remoteVars, stdout,
                    providerRuns >>

\* cmd.go:470-494 with the files saved so far removed when the write fails
ManualSaveDiscoveryDocument_CleansUp ==
    /\ pc = "manual.SaveDiscoveryDocument"
    /\ \E err \in CallOutcomes :
         IF err # ""
         THEN /\ Exit("manual.SaveDiscoveryDocument", << Msg("ERROR",
                     "There was a problem saving discovery document to a file: " \o err) >>)
              /\ files' = {}
         ELSE /\ files' = files \cup
                     {File(DiscoveryDocumentFilename(oidcConfigInput.BucketName),
                           oidcConfigInput.DiscoveryDocument)}
              /\ Goto("manual.SaveJwks", << >>)
    /\ UNCHANGED << strategyVars, oidcConfigInput, secretARN, remoteVars, stdout,
                    providerRuns >>

\* cmd.go:470-494
ManualSaveDiscoveryDocument ==
    /\ pc = "manual.SaveDiscoveryDocument"
    /\ \E err \in CallOutcomes :
         IF err # ""
         THEN /\ Exit("manual.SaveDiscoveryDocument", << Msg("ERROR",
                     "There was a problem saving discovery document to a file: " \o err) >>)
              /\ UNCHANGED files
         ELSE /\ files' = files \cup
                     {File(DiscoveryDocumentFilename(oidcConfigInput.BucketName),
                           oidcConfigInput.DiscoveryDocument)}
              /\ Goto("manual.SaveJwks", << >>)
    /\ UNCHANGED << strategyVars, oidcConfigInput, secretARN, remoteVars, stdout,
                    providerRuns >>

\* the last step of the Manual strategy creating the bucket itself
ManualSaveJwks_CreatesBucket ==
    /\ pc = "manual.SaveJwks"
    /\ \E err \in CallOutcomes :
         IF err # ""
         THEN /\ Exit("manual.SaveJwks", << Msg("ERROR",
                     "There was a problem saving JSON Web Key Set to a file: " \o err) >>)
              /\ UNCHANGED << files, stdout, s3Buckets >>
         ELSE /\ files' = files \cup {File(JwksFilename(oidcConfigInput.BucketName),
                                           oidcConfigInput.Jwks)}
              /\ stdout' = stdout \o ManualCommands(oidcConfigInput, args.region)
              /\ s3Buckets' = s3Buckets \cup
                     {[name |-> oidcConfigInput.BucketName, region |-> args.region]}
              /\ Goto("afterExecute", << >>)
    /\ UNCHANGED << strategyVars, oidcConfigInput, secretARN, s3Objects, secrets,
                    ocmOidcConfigs, calls, providerRuns >>

\* cmd.go:495-539: the last file is saved and the commands are printed
ManualSaveJwks ==
    /\ pc = "manual.SaveJwks"
    /\ \E err \in CallOutcomes :
         IF err # ""
         THEN /\ Exit("manual.SaveJwks", << Msg("ERROR",
                     "There was a problem saving JSON Web Key Set to a file: " \o err) >>)
              /\ UNCHANGED << files, stdout >>
         ELSE /\ files' = files \cup {File(JwksFilename(oidcConfigInput.BucketName),
                                           oidcConfigInput.Jwks)}
              /\ stdout' = stdout \o ManualCommands(oidcConfigInput, args.region)
              /\ Goto("afterExecute",
                      IF isTerminal
                      THEN << Msg("INFO", "Please run commands above to generate OIDC "
                                  \o "compliant configuration in your AWS account. After "
                                  \o "running the commands please refer to the documentation "
                                  \o "to register your unmanaged OIDC Configuration with OCM.") >>
                      ELSE << >>)
    /\ UNCHANGED << strategyVars, oidcConfigInput, secretARN, remoteVars, providerRuns >>

-----------------------------------------------------------------------------
(* cmd.go:263-266: the follow-up provider creation, then run returns.       *)

\* the provider step run a second time
RunProvider_Twice ==
    /\ pc = "afterExecute"
    /\ providerRuns' = IF ~args.rawFiles
                       THEN providerRuns \o
                            << [mode |-> mode, issuerUrl |-> oidcConfigInput.IssuerUrl],
                               [mode |-> mode, issuerUrl |-> oidcConfigInput.IssuerUrl] >>
                       ELSE providerRuns
    /\ pc' = "returned"
    /\ exitCode' = 0
    /\ UNCHANGED << strategyVars, oidcConfigInput, secretARN, remoteVars, files, stdout,
                    reporter, exitAt >>

\* the provider step without the test of args.rawFiles
RunProvider_Always ==
    /\ pc = "afterExecute"
    /\ providerRuns' = Append(providerRuns,
                              [mode |-> mode, issuerUrl |-> oidcConfigInput.IssuerUrl])
    /\ pc' = "returned"
    /\ exitCode' = 0
    /\ UNCHANGED << strategyVars, oidcConfigInput, secretARN, remoteVars, files, stdout,
                    reporter, exitAt >>

RunProvider ==
    /\ pc = "afterExecute"
    /\ providerRuns' = IF ~args.rawFiles
                       THEN Append(providerRuns,
                                   [mode |-> mode, issuerUrl |-> oidcConfigInput.IssuerUrl])
                       ELSE providerRuns
    /\ pc' = "returned"
    /\ exitCode' = 0
    /\ UNCHANGED << strategyVars, oidcConfigInput, secretARN, remoteVars, files, stdout,
                    reporter, exitAt >>

-----------------------------------------------------------------------------

Next ==
    \/ CheckRawFilesFlags
    \/ AskMode
    \/ UnmanagedPrompts
    \/ CheckRole
    \/ CheckPrefix
    \/ buildOidcConfigInput
    \/ SelectStrategy
    \/ AutoCreateS3Bucket
    \/ AutoPutDiscoveryDocument
    \/ AutoPutJwks
    \/ AutoCreateSecret
    \/ AutoCreateOidcConfig
    \/ ManagedCreateOidcConfig
    \/ RawSavePrivateKey
    \/ RawSaveDiscoveryDocument
    \/ RawSaveJwks
    \/ ManualSavePrivateKey
    \/ ManualSaveDiscoveryDocument
    \/ ManualSaveJwks
    \/ RunProvider

Spec == Init /\ [][Next]_vars

-----------------------------------------------------------------------------
(* The helper functions applied on their own: one behaviour is one call of  *)
(* isValidBucketName (cmd.go:282-298) or of generateDiscoveryDocument       *)
(* (cmd.go:709-711) on an argument drawn from a bounded set.                *)

MaxNameLen == 3
NameAlphabet == {"a", "z", "1", "-", ".", "A"}

RECURSIVE Words(_)
Words(n) ==
    IF n = 0 THEN {""}
    ELSE LET shorter == Words(n - 1)
         IN  shorter \cup {w \o c : w \in shorter, c \in NameAlphabet}

\* every non-empty name of up to MaxNameLen characters, and longer ones
\* around each test of the validator
BucketNames ==
    (Words(MaxNameLen) \ {""})
    \cup {"ab.", ".ab", "xn--abc", "abc-s3alias", "a..b", "oidc-ab12",
          "foo-oidc-9xyz", "Foo-oidc-ab12", "xn--", "-s3alias", "a-s3alias",
          "abc_def", "abc def", "oidc-ab1-", "0idc-ab12", "oidc.ab12"}

IssuerUrls ==
    {BucketUrlOf(BucketNameOf(p, l), r) : p \in {"", "foo"}, l \in RandomLabels,
                                          r \in Regions}
    \cup {"https://d111111abcdef8.cloudfront.net/abc", "https://example.com", ""}

UnitInputs ==
    {[fn |-> "isValidBucketName", arg |-> n] : n \in BucketNames}
    \cup {[fn |-> "generateDiscoveryDocument", arg |-> u] : u \in IssuerUrls}

UnitInit ==
    /\ unitInput \in UnitInputs
    /\ unitResult = NoResult
    /\ cmdline = [rawFiles |-> FALSE, managed |-> FALSE, userPrefix |-> "",
                  installerRoleArn |-> "", mode |-> "", yes |-> FALSE,
                  interactive |-> FALSE, region |-> DefaultRegion]
    /\ isTerminal = FALSE
    /\ args = [rawFiles |-> FALSE, managed |-> FALSE, userPrefix |-> "",
               installerRoleArn |-> "", region |-> ""]
    /\ mode = ""
    /\ interactiveEnabled = FALSE
    /\ pc = "unit"
    /\ exitCode = -1
    /\ exitAt = ""
    /\ oidcConfigInput = ZeroOidcConfigInput
    /\ strategy = ""
    /\ keyPairs = 0
    /\ assembly = << >>
    /\ secretARN = ""
    /\ s3Buckets = {}
    /\ s3Objects = {}
    /\ secrets = {}
    /\ ocmOidcConfigs = {}
    /\ calls = << >>
    /\ files = {}
    /\ reporter = << >>
    /\ stdout = << >>
    /\ providerRuns = << >>

programVars == << cmdline, isTerminal, args, mode, interactiveEnabled, pc, exitCode,
                 exitAt, oidcConfigInput, strategy, keyPairs, assembly, secretARN,
           s3Buckets,
                 s3Objects, secrets, ocmOidcConfigs, calls, files, reporter, stdout,
                 providerRuns >>

Returned(ret) == [fn |-> unitInput.fn, arg |-> unitInput.arg, ret |-> ret]

ApplyIsValidBucketName ==
    /\ pc = "unit"
    /\ unitInput.fn = "isValidBucketName"
    /\ unitResult = NoResult
    /\ unitResult' = Returned(isValidBucketName(unitInput.arg))
    /\ UNCHANGED << programVars, unitInput >>

ApplyGenerateDiscoveryDocument ==
    /\ pc = "unit"
    /\ unitInput.fn = "generateDiscoveryDocument"
    /\ unitResult = NoResult
    /\ unitResult' = Returned(generateDiscoveryDocument(unitInput.arg))
    /\ UNCHANGED << programVars, unitInput >>

UnitNext ==
    \/ ApplyIsValidBucketName
    \/ ApplyGenerateDiscoveryDocument

UnitSpec == UnitInit /\ [][UnitNext]_vars

-----------------------------------------------------------------------------
(* run is one sequential routine and every call it makes returns: as long   *)
(* as a step is possible, a step is taken.                                  *)

\* the invocations of Init in one region, with the shortest and the longest
\* prefix and with no or an existing installer role
FairInit ==
    /\ Init
    /\ cmdline.region = DefaultRegion
    /\ cmdline.userPrefix \in {"", "abcdefghijklmnop"}
    /\ cmdline.installerRoleArn \in {"", "arn:aws:iam::123456789012:role/Installer"}

FairSpec == FairInit /\ [][Next]_vars /\ WF_vars(Next)

-----------------------------------------------------------------------------
(* Properties.                                                              *)

\* the calls of the provisioning steps, without the lookup of the role
ProvisioningCalls == SelectSeq(calls, LAMBDA c : c.op # "CheckRoleExists")

\* the place of a call in the list create bucket, upload discovery document,
\* upload JWKS, store secret, register; 0 for any other call
StepOf(c) ==
    IF c.op = "CreateS3Bucket" THEN 1
    ELSE IF c.op = "PutPublicReadObjectInS3Bucket"
         THEN (IF c.req.key = ".well-known/openid-configuration" THEN 2
               ELSE IF c.req.body = oidcConfigInput.Jwks THEN 3 ELSE 0)
    ELSE IF c.op = "CreateSecretInSecretsManager" THEN 4
    ELSE IF c.op = "CreateOidcConfig" THEN 5
    ELSE 0

\* C1: in the Unmanaged/Automatic strategy the remote operations happen in the
\* order create bucket, upload discovery document, upload JWKS, store secret,
\* register, and each one starts only after every earlier one returned success.
C1_AutoStepsInOrder ==
    strategy = "UnmanagedAuto" =>
        \A i \in 1..Len(ProvisioningCalls) :
            /\ StepOf(ProvisioningCalls[i]) = i
            /\ i < Len(ProvisioningCalls) => ProvisioningCalls[i].ok

C1_Witness ==
    /\ strategy = "UnmanagedAuto"
    /\ Len(ProvisioningCalls) = 5
    /\ ProvisioningCalls[5].ok

\* C2: in the Unmanaged/Automatic strategy a failed step is the last call made,
\* the invocation ends with exit code 1 and the provider step is not run.
C2_AutoFailureAborts ==
    strategy = "UnmanagedAuto" =>
        \A i \in 1..Len(ProvisioningCalls) :
            ~ProvisioningCalls[i].ok =>
                /\ i = Len(ProvisioningCalls)
                /\ pc = "exited"
                /\ exitCode = 1
                /\ providerRuns = << >>

C2_Witness ==
    /\ strategy = "UnmanagedAuto"
    /\ Len(ProvisioningCalls) = 4
    /\ ~ProvisioningCalls[4].ok
    /\ pc = "exited"

\* what the failure of a step tells the user: the errors and warnings reported
FailureReport == { reporter[i].text : i \in { j \in 1..Len(reporter) :
                        reporter[j].level \in {"ERROR", "WARN"} } }

AutoStepExits ==
    {"auto.CreateS3Bucket", "auto.PutDiscoveryDocument", "auto.PutJwks",
     "auto.CreateSecret", "auto.CreateOidcConfig"}

\* identifiers of the remote resources this run has created
CreatedIdentifiers == { b.name : b \in s3Buckets } \cup { x.arn : x \in secrets }

\* C3: when a step of the Unmanaged/Automatic strategy fails, the report names
\* every remote resource already created: the bucket name once the bucket
\* exists and the secret ARN once the secret exists.
C3_FailureNamesCreatedResources ==
    exitAt \in AutoStepExits =>
        \A id \in CreatedIdentifiers : \E text \in FailureReport : Contains(text, id)

\* C4: no compensation: the sets of remote resources never shrink, the log of
\* calls only grows, and the only calls made are the lookup of the role and the
\* four creating operations; of the registry only Create is called.
C4_NoCompensation ==
    [][ /\ s3Buckets \subseteq s3Buckets'
        /\ s3Objects \subseteq s3Objects'
        /\ secrets \subseteq secrets'
        /\ ocmOidcConfigs \subseteq ocmOidcConfigs'
        /\ Len(calls) <= Len(calls')
        /\ SubSeq(calls', 1, Len(calls)) = calls
        /\ \A i \in 1..Len(calls') :
              calls'[i].op \in {"CheckRoleExists", "CreateS3Bucket",
                                "PutPublicReadObjectInS3Bucket",
                                "CreateSecretInSecretsManager", "CreateOidcConfig"}
      ]_vars

C4_Witness ==
    /\ exitAt = "auto.CreateOidcConfig"
    /\ s3Buckets # {}
    /\ Cardinality(s3Objects) = 2
    /\ secrets # {}
    /\ ocmOidcConfigs = {}

\* C5: the strategy is a function of (rawFiles, managed, mode): rawFiles selects
\* Raw whatever mode and managed are; otherwise managed selects Managed/Automatic
\* whatever mode is; otherwise auto selects Unmanaged/Automatic and manual
\* selects Unmanaged/Manual.  It holds of the function on all inputs and of the
\* strategy each invocation selected.
C5_StrategyDispatch ==
    /\ \A m \in Modes \cup {""}, g \in BOOLEAN :
          getOidcConfigStrategy(m, TRUE, g) = "Raw"
    /\ \A m \in Modes \cup {""} : getOidcConfigStrategy(m, FALSE, TRUE) = "ManagedAuto"
    /\ getOidcConfigStrategy("auto", FALSE, FALSE) = "UnmanagedAuto"
    /\ getOidcConfigStrategy("manual", FALSE, FALSE) = "UnmanagedManual"
    /\ strategy = "Raw" <=> (strategy # "" /\ cmdline.rawFiles)
    /\ strategy = "ManagedAuto" <=> (strategy # "" /\ ~cmdline.rawFiles /\ cmdline.managed)
    /\ strategy = "UnmanagedAuto" <=>
          (strategy # "" /\ ~cmdline.rawFiles /\ ~cmdline.managed /\ mode = "auto")
    /\ strategy = "UnmanagedManual" <=>
          (strategy # "" /\ ~cmdline.rawFiles /\ ~cmdline.managed /\ mode = "manual")

C5_Witness ==
    /\ strategy = "UnmanagedManual"
    /\ pc = "manual.SavePrivateKey"
    /\ cmdline.mode = "manual"


\* the pairings of flags the command does not accept
ForbiddenPairing ==
    \/ cmdline.rawFiles /\ cmdline.mode # ""
    \/ cmdline.rawFiles /\ cmdline.installerRoleArn # ""
    \/ cmdline.rawFiles /\ cmdline.managed
    \/ cmdline.managed /\ cmdline.userPrefix # ""
    \/ cmdline.managed /\ cmdline.installerRoleArn # ""

NoSideEffects ==
    /\ calls = << >>
    /\ s3Buckets = {} /\ s3Objects = {} /\ secrets = {} /\ ocmOidcConfigs = {}
    /\ files = {}

\* C6: an invocation whose flags hold a forbidden pairing never selects or
\* executes a strategy, makes no call to S3, Secrets Manager or the registry,
\* writes no file, and when it ends it ends with exit code 1.
C6_ForbiddenPairingsRejected ==
    ForbiddenPairing =>
        /\ strategy = ""
        /\ pc \in {"start", "askMode", "exited"}
        /\ pc = "exited" => exitCode = 1
        /\ NoSideEffects
        /\ keyPairs = 0
        /\ providerRuns = << >>

C6_Witness ==
    /\ ForbiddenPairing
    /\ cmdline.managed /\ ~cmdline.rawFiles /\ cmdline.userPrefix # ""
    /\ pc = "exited"
    /\ exitAt = "managedConflict"

\* the exits taken on a validation failure: conflicting flags, a malformed
\* installer-role ARN, a prefix that is too long, an invalid bucket name
ValidationExits ==
    {"rawFilesConflict", "managedConflict", "invalidArn", "prefixTooLong",
     "invalidBucketName"}

\* C7: every validation failure is detected before any remote call (S3, Secrets
\* Manager, IAM with the lookup of the role, the registry) has been made, and
\* the invocation exits non-zero with no side effects.
C7_ValidationBeforeRemoteCalls ==
    exitAt \in ValidationExits => (exitCode = 1 /\ NoSideEffects)

\* C8: a managed invocation generates no key pair, creates no bucket, object or
\* secret and writes no file; the registry receives one Create request, with
\* managed=true and nothing else; the provider step gets the issuer URL the
\* registry returned.
C8_ManagedOnlyRegisters ==
    (cmdline.managed /\ ~cmdline.rawFiles) =>
        /\ keyPairs = 0
        /\ s3Buckets = {} /\ s3Objects = {} /\ secrets = {} /\ files = {}
        /\ stdout = << >>
        /\ Len(calls) <= 1
        /\ \A i \in 1..Len(calls) :
              /\ calls[i].op = "CreateOidcConfig"
              /\ calls[i].req.managed = TRUE
              /\ calls[i].req.secretArn = ""
              /\ calls[i].req.issuerUrl = ""
              /\ calls[i].req.installerRoleArn = ""
        /\ (pc \in {"afterExecute", "returned"} \/ exitAt = "managed.CreateOidcConfig")
              => Len(calls) = 1
        /\ Len(providerRuns) <= 1
        /\ \A i \in 1..Len(providerRuns) :
              \E record \in ocmOidcConfigs : providerRuns[i].issuerUrl = record.issuerUrl
        /\ pc = "returned" => Len(providerRuns) = 1

C8_Witness ==
    /\ cmdline.managed /\ ~cmdline.rawFiles
    /\ pc = "returned"
    /\ Len(providerRuns) = 1
    /\ Len(calls) = 1

\* C9: in a successful Unmanaged/Automatic run the registry Create request has
\* managed=false, the ARN the store-secret step returned and the issuer URL
\* https://<bucket>.s3.<region>.amazonaws.com of the bundle; the URL the
\* registry returns does not replace the bundle's issuer URL.
C9_AutoRegistryRequest ==
    (strategy = "UnmanagedAuto" /\ pc \in {"afterExecute", "returned"}) =>
        /\ Len(ProvisioningCalls) = 5
        /\ LET create == ProvisioningCalls[5]
           IN  /\ create.op = "CreateOidcConfig"
               /\ create.ok
               /\ create.req.managed = FALSE
               /\ \E x \in secrets :
                     /\ x.name = ProvisioningCalls[4].req.name
                     /\ x.arn = create.req.secretArn
               /\ \E b \in s3Buckets :
                     create.req.issuerUrl =
                         "https://" \o b.name \o ".s3." \o b.region \o ".amazonaws.com"
               /\ create.req.issuerUrl = oidcConfigInput.IssuerUrl
               /\ \A i \in 1..Len(providerRuns) :
                     providerRuns[i].issuerUrl = create.req.issuerUrl

C9_Witness ==
    /\ strategy = "UnmanagedAuto"
    /\ pc = "returned"
    /\ Len(providerRuns) = 1
    /\ \E record \in ocmOidcConfigs : record.issuerUrl # oidcConfigInput.IssuerUrl

\* the value of a parameter of a command, "" when the command has none
Param(cmd, name) ==
    LET at == { i \in 1..Len(cmd.params) : cmd.params[i][1] = name }
    IN  IF at = {} THEN "" ELSE cmd.params[CHOOSE i \in at : TRUE][2]

Commands(service, command) ==
    { stdout[i] : i \in { j \in 1..Len(stdout) :
                            stdout[j].service = service /\ stdout[j].command = command } }

\* C10: once the bundle of an unmanaged invocation is built, the discovery
\* document's issuer is the bundle's issuerUrl, its jwks_uri is issuerUrl +
\* "/keys.json", and the JWKS is published, or commanded to be published, at
\* key "keys.json" of the bucket whose URL is issuerUrl, so that jwks_uri is
\* the address of the JWKS object.
C10_DiscoveryMatchesPublishedJwks ==
    (~cmdline.managed /\ oidcConfigInput # ZeroOidcConfigInput) =>
        LET doc == oidcConfigInput.DiscoveryDocument
            issuerUrl == oidcConfigInput.IssuerUrl
        IN  /\ JsonStringField(doc, "issuer") = issuerUrl
            /\ JsonStringField(doc, "jwks_uri") = issuerUrl \o "/keys.json"
            /\ \A o \in s3Objects :
                  o.body = oidcConfigInput.Jwks =>
                      /\ o.key = "keys.json"
                      /\ \E b \in s3Buckets :
                            /\ b.name = o.bucket
                            /\ "https://" \o b.name \o ".s3." \o b.region
                                   \o ".amazonaws.com" = issuerUrl
                            /\ "https://" \o b.name \o ".s3." \o b.region
                                   \o ".amazonaws.com/" \o o.key
                                   = JsonStringField(doc, "jwks_uri")
            /\ \A put \in Commands("s3api", "put-object") :
                  Param(put, "body") = "./jwks-" \o oidcConfigInput.BucketName \o ".json" =>
                      /\ Param(put, "key") = "keys.json"
                      /\ \E mk \in Commands("s3api", "create-bucket") :
                            /\ Param(mk, "bucket") = Param(put, "bucket")
                            /\ "https://" \o Param(mk, "bucket") \o ".s3."
                                   \o Param(mk, "region") \o ".amazonaws.com/"
                                   \o Param(put, "key")
                                   = JsonStringField(doc, "jwks_uri")

C10_Witness ==
    /\ strategy = "UnmanagedAuto"
    /\ \E o \in s3Objects : o.body = oidcConfigInput.Jwks
    /\ JsonStringField(oidcConfigInput.DiscoveryDocument, "jwks_uri") # ""

-----------------------------------------------------------------------------
(* C11 - C20.                                                               *)

OnlyLowerDigitHyphen(s) ==
    \A i \in 1..Len(s) : Contains(LowerLetters \o Digits \o "-", CharAt(s, i))

RejectedExamples == {"ab.", ".ab", "xn--abc", "abc-s3alias", "a..b"}

\* the names the sentence of the specification says are accepted
AcceptedAsStated(s) ==
    /\ OnlyLowerDigitHyphen(s)
    /\ Len(s) >= 2
    /\ ~HasPrefix(s, "xn--")
    /\ ~HasSuffix(s, "-s3alias")
    /\ ~Contains(s, ".")

\* the same with the three requirements of the pattern: three characters
\* at least, a letter first, a letter or digit last
AcceptedAsAmended(s) ==
    /\ OnlyLowerDigitHyphen(s)
    /\ Len(s) >= 3
    /\ Contains(LowerLetters, CharAt(s, 1))
    /\ CharAt(s, Len(s)) # "-"
    /\ ~HasPrefix(s, "xn--")
    /\ ~HasSuffix(s, "-s3alias")
    /\ ~Contains(s, ".")

ValidatorReturned == unitResult.fn = "isValidBucketName"

\* C11 as stated: the validator accepts a name exactly when it is made of
\* lowercase letters, digits and hyphens, has at least 2 characters, does
\* not start with "xn--", does not end with "-s3alias" and has no "."; it
\* rejects the five listed names and accepts "oidc-ab12".
C11_ValidatorAsStated ==
    ValidatorReturned =>
        /\ unitResult.ret <=> AcceptedAsStated(unitResult.arg)
        /\ unitResult.arg \in RejectedExamples => ~unitResult.ret
        /\ unitResult.arg = "oidc-ab12" => unitResult.ret

\* C11 (amended): the validator accepts a name exactly when it is made of
\* lowercase letters, digits and hyphens, has at least 3 characters, starts
\* with a lowercase letter, ends with a lowercase letter or a digit, does
\* not start with "xn--", does not end with "-s3alias" and has no "."; it
\* rejects the five listed names and accepts "oidc-ab12".
C11_ValidatorAccepts ==
    ValidatorReturned =>
        /\ unitResult.ret <=> AcceptedAsAmended(unitResult.arg)
        /\ unitResult.arg \in RejectedExamples => ~unitResult.ret
        /\ unitResult.arg = "oidc-ab12" => unitResult.ret

\* a name of letters, digits and hyphens that starts with a digit was
\* rejected
C11_Witness ==
    /\ ValidatorReturned
    /\ unitResult.arg = "1aa"
    /\ ~unitResult.ret

\* the bundle of an unmanaged invocation has been built
BundleBuilt == ~cmdline.managed /\ oidcConfigInput # ZeroOidcConfigInput

\* the random label of a bucket name: its last defaultLengthRandomLabel characters
LabelOf(bucketName) ==
    SubSeq(bucketName, Len(bucketName) - defaultLengthRandomLabel + 1, Len(bucketName))

\* C12: once an unmanaged invocation has built its bundle, bucketName is
\* "oidc-<label>" when the (trimmed) prefix is empty and
\* "<prefix>-oidc-<label>" otherwise, for a label of 4 characters;
\* privateKeySecretName is "rosa-private-key-<bucketName>",
\* privateKeyFilename is "<privateKeySecretName>.key" and issuerUrl is
\* "https://<bucketName>.s3.<region>.amazonaws.com".
C12_BundleNames ==
    BundleBuilt =>
        LET b      == oidcConfigInput.BucketName
            label  == LabelOf(b)
            prefix == args.userPrefix
        IN  /\ Len(label) = 4
            /\ ~Contains(label, "-")
            /\ b = IF prefix = "" THEN "oidc-" \o label
                                  ELSE prefix \o "-oidc-" \o label
            /\ oidcConfigInput.PrivateKeySecretName = "rosa-private-key-" \o b
            /\ oidcConfigInput.PrivateKeyFilename
                    = oidcConfigInput.PrivateKeySecretName \o ".key"
            /\ oidcConfigInput.IssuerUrl
                    = "https://" \o b \o ".s3." \o args.region \o ".amazonaws.com"

\* a bundle built with a prefix, in a region other than the default one
C12_Witness ==
    /\ BundleBuilt
    /\ args.userPrefix = "foo"
    /\ oidcConfigInput.BucketName = "foo-oidc-9xyz"
    /\ args.region = "eu-west-1"
    /\ strategy = "UnmanagedManual"

\* nothing exists remotely and no call was logged
NothingRemote ==
    /\ calls = << >>
    /\ s3Buckets = {}
    /\ s3Objects = {}
    /\ secrets = {}
    /\ ocmOidcConfigs = {}

\* the three files of the bundle, by the names the strategies give them
BundleFileNames ==
    {"rosa-private-key-" \o oidcConfigInput.BucketName \o ".key",
     "discovery-document-" \o oidcConfigInput.BucketName \o ".json",
     "jwks-" \o oidcConfigInput.BucketName \o ".json"}

\* C13: an invocation with --raw-files, and so every invocation that runs
\* the Raw strategy, makes no object-storage, secret-storage, role or
\* registry call at any point, writes no file other than the private key
\* file, discovery-document-<bucket>.json and jwks-<bucket>.json, prints no
\* command, and does not run the provider-creation step.
C13_RawIsLocalOnly ==
    (cmdline.rawFiles \/ strategy = "Raw") =>
        /\ NothingRemote
        /\ \A f \in files : f.name \in BundleFileNames
        /\ stdout = << >>
        /\ providerRuns = << >>

\* the Raw strategy wrote its three files and run returned
C13_Witness ==
    /\ strategy = "Raw"
    /\ pc = "returned"
    /\ {f.name : f \in files} = BundleFileNames
    /\ Cardinality(files) = 3

ManualSteps == {"manual.SavePrivateKey", "manual.SaveDiscoveryDocument", "manual.SaveJwks"}

\* what a step taken from a position inside the Manual strategy may change
ManualStepFrame ==
    pc \in ManualSteps =>
        /\ UNCHANGED << s3Buckets, s3Objects, secrets, ocmOidcConfigs, calls >>
        /\ UNCHANGED << oidcConfigInput, args, secretARN, providerRuns >>
        /\ files \subseteq files'
        /\ \A f \in files' \ files : f.name \in BundleFileNames
        /\ (stdout' # stdout => pc' = "afterExecute")

\* C14: a step of the Unmanaged/Manual strategy, successful or failed,
\* makes no call and leaves the buckets, objects, secrets and registry
\* records as they were; it changes nothing but the local files, where it
\* adds at most files of the three bundle names, and the printed commands.
C14_ManualFrame == [][ManualStepFrame]_vars

\* the Manual strategy ran to its end after the role was looked up in run
C14_Witness ==
    /\ strategy = "UnmanagedManual"
    /\ pc = "afterExecute"
    /\ stdout # << >>
    /\ Cardinality(files) = 3
    /\ Len(calls) = 1
    /\ s3Buckets = {} /\ s3Objects = {} /\ secrets = {} /\ ocmOidcConfigs = {}

\* the file a "./<name>" or "file://<name>" parameter points to
FileNameOf(path) ==
    IF HasPrefix(path, "./") THEN SubSeq(path, 3, Len(path))
    ELSE IF HasPrefix(path, "file://") THEN SubSeq(path, 8, Len(path))
    ELSE path

\* what the shell and the AWS CLI do with one printed command, in a
\* directory holding the files fs and an account holding st
RunCommand(st, cmd) ==
    LET body == { f \in st.fs : f.name = FileNameOf(Param(cmd, "body")) }
        str  == { f \in st.fs : f.name = FileNameOf(Param(cmd, "secret-string")) }
    IN  CASE cmd.command = "create-bucket" ->
               [st EXCEPT !.buckets = @ \cup {[name |-> Param(cmd, "bucket"),
                                               region |-> Param(cmd, "region")]}]
          [] cmd.command = "put-object" ->
               IF body = {} \/ \A b \in st.buckets : b.name # Param(cmd, "bucket")
               THEN [st EXCEPT !.failed = TRUE]
               ELSE [st EXCEPT !.objects = @ \cup
                        {[bucket |-> Param(cmd, "bucket"), key |-> Param(cmd, "key"),
                          body |-> f.content, acl |-> Param(cmd, "acl")] : f \in body}]
          [] cmd.command = "create-secret" ->
               IF str = {}
               THEN [st EXCEPT !.failed = TRUE]
               ELSE [st EXCEPT !.secrets = @ \cup
                        {[name |-> Param(cmd, "name"), value |-> f.content,
                          arn |-> SecretArnOf(Param(cmd, "name"), Param(cmd, "region"))]
                           : f \in str}]
          [] cmd.command = "rm" ->
               [st EXCEPT !.fs = { f \in @ : f.name # Param(cmd, "file") }]
          [] OTHER -> st

RECURSIVE RunCommands(_, _)
RunCommands(st, cmds) ==
    IF cmds = << >> THEN st
    ELSE RunCommands(RunCommand(st, Head(cmds)), Tail(cmds))

\* the buckets, objects and secrets the bundle stands for
BundleResources ==
    [buckets |-> {[name |-> oidcConfigInput.BucketName, region |-> args.region]},
     objects |-> {[bucket |-> oidcConfigInput.BucketName,
                   key |-> ".well-known/openid-configuration",
                   body |-> oidcConfigInput.DiscoveryDocument, acl |-> "public-read"],
                  [bucket |-> oidcConfigInput.BucketName, key |-> "keys.json",
                   body |-> oidcConfigInput.Jwks, acl |-> "public-read"]},
     secrets |-> {[name |-> oidcConfigInput.PrivateKeySecretName,
                   value |-> oidcConfigInput.PrivateKey,
                   arn |-> SecretArnOf(oidcConfigInput.PrivateKeySecretName, args.region)]}]

\* the positions in stdout of the commands that create or fill something
StorageCommands ==
    SelectSeq(stdout, LAMBDA c : c.command \in {"create-bucket", "put-object",
                                                "create-secret"})

ManualPrinted == strategy = "UnmanagedManual" /\ stdout # << >>
AutoStored == strategy = "UnmanagedAuto" /\ secretARN # ""

\* C15: the Manual strategy prints, in this order, a create-bucket for the
\* bundle's bucket in the region, a public-read put-object of the
\* discovery document at ".well-known/openid-configuration", a public-read
\* put-object of the JWKS at "keys.json" and a create-secret named
\* privateKeySecretName; running the printed commands in the directory of
\* the saved files yields the bundle's bucket, two objects and secret, which
\* is what the Automatic strategy holds once its secret is stored.
C15_ManualMirrorsAuto ==
    /\ ManualPrinted =>
          LET ran == RunCommands([fs |-> files, buckets |-> {}, objects |-> {},
                                  secrets |-> {}, failed |-> FALSE], stdout)
              sc  == StorageCommands
          IN  /\ ~ran.failed
              /\ ran.buckets = BundleResources.buckets
              /\ ran.objects = BundleResources.objects
              /\ ran.secrets = BundleResources.secrets
              /\ Len(sc) = 4
              /\ sc[1].command = "create-bucket"
              /\ sc[2].command = "put-object"
              /\ Param(sc[2], "key") = ".well-known/openid-configuration"
              /\ sc[3].command = "put-object"
              /\ Param(sc[3], "key") = "keys.json"
              /\ sc[4].command = "create-secret"
    /\ AutoStored =>
          /\ s3Buckets = BundleResources.buckets
          /\ s3Objects = BundleResources.objects
          /\ secrets = BundleResources.secrets

\* the commands were printed for a region that needs a location constraint
C15_Witness ==
    /\ ManualPrinted
    /\ args.region = "eu-west-1"
    /\ Len(stdout) = 8
    /\ Cardinality(files) = 3

\* the bytes of the private key inside its PEM block, "" when there is no key
PrivateKeyBytes == PemDecode(oidcConfigInput.PrivateKey)

\* every text that leaves the process other than through the secret-storage
\* call and the local files: reporter messages, uploaded objects, requests
\* to object storage, the role lookup, the registry, the printed commands
\* and the arguments of the provider step
ExposedTexts ==
    { reporter[i].text : i \in 1..Len(reporter) }
    \cup { o.body : o \in s3Objects }
    \cup { calls[i].req.body :
             i \in { j \in 1..Len(calls) : calls[j].op = "PutPublicReadObjectInS3Bucket" } }
    \cup UNION { {calls[i].req.secretArn, calls[i].req.issuerUrl,
                  calls[i].req.installerRoleArn} :
                   i \in { j \in 1..Len(calls) : calls[j].op = "CreateOidcConfig" } }
    \cup UNION { {c.id, c.issuerUrl, c.request.secretArn, c.request.issuerUrl,
                  c.request.installerRoleArn} : c \in ocmOidcConfigs }
    \cup { calls[i].req.roleName :
             i \in { j \in 1..Len(calls) : calls[j].op = "CheckRoleExists" } }
    \cup UNION { { stdout[i].params[k][2] : k \in 1..Len(stdout[i].params) } :
                   i \in 1..Len(stdout) }
    \cup { providerRuns[i].issuerUrl : i \in 1..Len(providerRuns) }

\* C16: once there is a private key, its bytes appear in no reporter
\* message, uploaded object, object-storage, role or registry request,
\* printed command or provider argument; a secret holds them only under the
\* Automatic strategy, and a local file holds them only under the Raw or the
\* Manual strategy and only in the private-key file.
C16_PrivateKeyFlow ==
    PrivateKeyBytes # "" =>
        /\ \A t \in ExposedTexts : ~Contains(t, PrivateKeyBytes)
        /\ \A f \in files :
              Contains(f.content, PrivateKeyBytes) =>
                  /\ f.name = oidcConfigInput.PrivateKeyFilename
                  /\ strategy \in {"Raw", "UnmanagedManual"}
        /\ \A i \in 1..Len(calls) :
              calls[i].op = "CreateSecretInSecretsManager" => strategy = "UnmanagedAuto"
        /\ secrets # {} => strategy = "UnmanagedAuto"

\* the key is in the key file and the commands that name the file are out
C16_Witness ==
    /\ ManualPrinted
    /\ PrivateKeyBytes # ""
    /\ \E f \in files : Contains(f.content, PrivateKeyBytes)
    /\ \E c \in Commands("secretsmanager", "create-secret") :
          Param(c, "secret-string") = "file://" \o oidcConfigInput.PrivateKeyFilename

\* a lookup of the role the ARN names was made and answered
RoleLookedUp(roleArn) ==
    \E i \in 1..Len(calls) :
        /\ calls[i].op = "CheckRoleExists"
        /\ calls[i].ok
        /\ HasSuffix(roleArn, "/" \o calls[i].req.roleName)

\* C17: when a non-empty installer-role-arn is supplied to an unmanaged,
\* non-raw invocation, a strategy is selected, and so executes, only if the
\* value in effect parses as an ARN and the role it names was looked up and
\* found before; the lookup precedes every provisioning call.
C17_RoleConfirmedBeforeStrategy ==
    (cmdline.installerRoleArn # "" /\ ~cmdline.managed /\ ~cmdline.rawFiles
        /\ strategy # "") =>
        /\ args.installerRoleArn # ""
        /\ ArnParse(args.installerRoleArn).err = ""
        /\ RoleLookedUp(args.installerRoleArn)
        /\ calls[1].op = "CheckRoleExists"

\* the prefix has no space or tab at either end
IsTrimmed(prefix) ==
    \/ prefix = ""
    \/ /\ CharAt(prefix, 1) \notin {" ", "\t"}
       /\ CharAt(prefix, Len(prefix)) \notin {" ", "\t"}

\* run is past the prefix check of an unmanaged invocation
PastPrefixCheck ==
    \/ pc \in {"buildInput", "selectStrategy", "afterExecute", "returned"}
    \/ oidcConfigInput # ZeroOidcConfigInput
    \/ strategy # ""

\* C18: no strategy executes with a prefix of more than 15 characters; in
\* an unmanaged invocation (raw, auto or manual, interactive or not) the
\* prefix is trimmed of spaces and tabs and within 15 characters from
\* before the bundle is built, and an invocation whose trimmed prefix is
\* longer ends with exit code 1 at the prefix check or earlier, without a
\* bundle or a strategy.
C18_PrefixWithinLimit ==
    /\ strategy # "" => Len(args.userPrefix) <= 15
    /\ (~cmdline.managed /\ PastPrefixCheck) =>
          /\ IsTrimmed(args.userPrefix)
          /\ Len(args.userPrefix) <= 15
    /\ (~cmdline.managed /\ pc \in {"exited", "returned"}
          /\ Len(Trim(args.userPrefix, " \t")) > 15) =>
          /\ exitCode = 1
          /\ oidcConfigInput = ZeroOidcConfigInput
          /\ strategy = ""

\* a raw invocation stopped at the prefix check
C18_Witness ==
    /\ cmdline.rawFiles
    /\ cmdline.userPrefix = "abcdefghijklmnop"
    /\ exitAt = "prefixTooLong"
    /\ exitCode = 1

\* the quoted strings of s from position from on, in order
RECURSIVE QuotedStrings(_, _)
QuotedStrings(s, from) ==
    LET open  == IndexFrom(s, "\"", from)
        close == IF open = 0 THEN 0 ELSE IndexFrom(s, "\"", open + 1)
    IN  IF open = 0 \/ close = 0 THEN << >>
        ELSE << SubSeq(s, open + 1, close - 1) >> \o QuotedStrings(s, close + 1)

\* what a JSON reader finds as the value of a top-level field that is an
\* array of strings
JsonArrayField(doc, name) ==
    LET key   == "\"" \o name \o "\": ["
        at    == IndexFrom(doc, key, 1)
        start == at + Len(key)
        stop  == IndexFrom(doc, "]", start)
    IN  IF at = 0 \/ stop = 0 THEN << >>
        ELSE QuotedStrings(SubSeq(doc, start, stop - 1), 1)

\* the names of the top-level fields: a field starts a line after one tab
RECURSIVE TopLevelFields(_, _)
TopLevelFields(doc, from) ==
    LET at    == IndexFrom(doc, "\n\t\"", from)
        close == IF at = 0 THEN 0 ELSE IndexFrom(doc, "\"", at + 3)
    IN  IF at = 0 \/ close = 0 THEN {}
        ELSE {SubSeq(doc, at + 3, close - 1)} \cup TopLevelFields(doc, close + 1)

DocumentReturned == unitResult.fn = "generateDiscoveryDocument"

\* C20: for every issuer URL u, the document generated for u has issuer u,
\* jwks_uri u + "/keys.json", response_types_supported ["id_token"],
\* subject_types_supported ["public"],
\* id_token_signing_alg_values_supported ["RS256"], the fixed list
\* claims_supported, and no other field.
C20_DiscoveryDocumentFields ==
    DocumentReturned =>
        LET u   == unitResult.arg
            doc == unitResult.ret
        IN  /\ JsonStringField(doc, "issuer") = u
            /\ JsonStringField(doc, "jwks_uri") = u \o "/keys.json"
            /\ JsonArrayField(doc, "response_types_supported") = << "id_token" >>
            /\ JsonArrayField(doc, "subject_types_supported") = << "public" >>
            /\ JsonArrayField(doc, "id_token_signing_alg_values_supported") = << "RS256" >>
            /\ JsonArrayField(doc, "claims_supported")
                   = << "aud", "exp", "sub", "iat", "iss", "sub" >>
            /\ TopLevelFields(doc, 1)
                   = {"issuer", "jwks_uri", "response_types_supported",
                      "subject_types_supported", "id_token_signing_alg_values_supported",
                      "claims_supported"}

\* the document of a bucket URL was generated
C20_Witness ==
    /\ DocumentReturned
    /\ unitResult.arg = "https://foo-oidc-ab12.s3.eu-west-1.amazonaws.com"
    /\ JsonStringField(unitResult.ret, "jwks_uri")
           = "https://foo-oidc-ab12.s3.eu-west-1.amazonaws.com/keys.json"

-----------------------------------------------------------------------------
(* C21 - C29.                                                               *)

\* the reporter was told that the key pair or the JWKS could not be made
GeneratorFailed ==
    \E i \in 1..Len(reporter) :
        \/ HasPrefix(reporter[i].text, "There was a problem generating key pair: ")
        \/ HasPrefix(reporter[i].text, "There was a problem generating JSON Web Key Set: ")

\* C21: when key-pair generation or JWKS building has failed, the
\* invocation has exited with code 1 at that point, and no bucket, object,
\* secret or registry record exists, no provisioning call was made, no
\* local file was written and no command was printed.
C21_GeneratorFailureLeavesNothing ==
    GeneratorFailed =>
        /\ pc = "exited"
        /\ exitCode = 1
        /\ exitAt \in {"keyPair", "jwks"}
        /\ s3Buckets = {} /\ s3Objects = {} /\ secrets = {} /\ ocmOidcConfigs = {}
        /\ ProvisioningCalls = << >>
        /\ files = {}
        /\ stdout = << >>
        /\ providerRuns = << >>

\* key-pair generation failed after the installer role was looked up
C21_Witness ==
    /\ GeneratorFailed
    /\ exitAt = "keyPair"
    /\ Len(calls) = 1

\* the remote operation a logged call is an attempt of: the two uploads
\* are told apart by their key
OperationOf(c) ==
    IF c.op = "PutPublicReadObjectInS3Bucket" THEN c.op \o " " \o c.req.key ELSE c.op

\* C22: within one invocation every remote operation (the role lookup,
\* create bucket, each of the two uploads, store secret, registry Create)
\* is attempted at most once, so a failed one is never attempted again and
\* a failed call is the last call of the invocation.
C22_NoRetry ==
    /\ \A i, j \in 1..Len(calls) : i < j => OperationOf(calls[i]) # OperationOf(calls[j])
    /\ \A i \in 1..Len(calls) :
          (~calls[i].ok /\ calls[i].op # "CheckRoleExists") =>
              i = Len(calls) /\ pc = "exited"
    /\ Cardinality(ocmOidcConfigs) <= 1

\* the secret could not be stored after the three storage calls succeeded
C22_Witness ==
    /\ pc = "exited"
    /\ Len(ProvisioningCalls) = 4
    /\ ~calls[Len(calls)].ok
    /\ calls[Len(calls)].op = "CreateSecretInSecretsManager"

Terminal == pc \in {"exited", "returned"}

\* run returned after the selected strategy took its last step
Completed == pc = "returned" /\ exitCode = 0 /\ strategy # "" /\ exitAt = ""

\* run stopped with exit code 1 at the first failing check or step
Stopped == pc = "exited" /\ exitCode = 1 /\ exitAt # ""

\* C23: when every call and file write returns, every invocation
\* eventually reaches a terminal state and stays there: either the
\* strategy completed and run returned, or the invocation exited with code
\* 1 at the failing step; it never stays in an intermediate state.
C23_Terminates == <>[](Completed \/ Stopped)

\* the Automatic strategy completed all of its steps
C23_Witness ==
    /\ Completed
    /\ strategy = "UnmanagedAuto"
    /\ Len(ProvisioningCalls) = 5

AssemblyOrder ==
    << "isValidBucketName", "createKeyPair", "generateDiscoveryDocument",
       "buildJSONWebKeySet" >>

\* every field of the bundle is filled in
BundleComplete ==
    \A f \in DOMAIN oidcConfigInput : oidcConfigInput[f] # ""

\* C24: bundle assembly calls bucket-name validation, key-pair generation,
\* discovery-document building and JWKS building in that order and stops at
\* the first that fails: an invalid name stops it before a key pair is
\* generated, a key-pair failure before the documents are built; the bundle
\* of an unmanaged invocation is either still the zero value or complete,
\* and its strategy is selected only after all four calls, with the complete
\* bundle; a managed invocation makes none of the calls.
C24_AssemblyOrder ==
    /\ \E n \in 0..Len(AssemblyOrder) : assembly = SubSeq(AssemblyOrder, 1, n)
    /\ exitAt = "invalidBucketName" => Len(assembly) = 1 /\ keyPairs = 0
    /\ exitAt = "keyPair" => Len(assembly) = 2
    /\ exitAt = "jwks" => Len(assembly) = 4
    /\ exitAt \in {"invalidBucketName", "keyPair", "jwks"} =>
          oidcConfigInput = ZeroOidcConfigInput /\ strategy = ""
    /\ ~cmdline.managed => (oidcConfigInput = ZeroOidcConfigInput \/ BundleComplete)
    /\ (strategy # "" /\ ~cmdline.managed) =>
          /\ assembly = AssemblyOrder
          /\ keyPairs = 1
          /\ BundleComplete
    /\ cmdline.managed => assembly = << >>

\* assembly stopped at the validation of a name with an uppercase prefix
C24_Witness ==
    /\ exitAt = "invalidBucketName"
    /\ args.userPrefix = "Foo"
    /\ assembly = << "isValidBucketName" >>

\* what a step may do to the bundle once a strategy is selected
BundleFrame ==
    strategy # "" =>
        IF strategy = "ManagedAuto"
        THEN \/ oidcConfigInput' = oidcConfigInput
             \/ /\ oidcConfigInput = ZeroOidcConfigInput
                /\ oidcConfigInput'
                      = [ZeroOidcConfigInput EXCEPT !.IssuerUrl = oidcConfigInput'.IssuerUrl]
                /\ pc = "managed.CreateOidcConfig"
                /\ Len(calls') = Len(calls) + 1
                /\ calls'[Len(calls')].op = "CreateOidcConfig"
                /\ calls'[Len(calls')].ok
                /\ \E c \in ocmOidcConfigs' \ ocmOidcConfigs :
                      c.issuerUrl = oidcConfigInput'.IssuerUrl
        ELSE oidcConfigInput' = oidcConfigInput

\* C25: once a strategy is selected, no step of the Raw, the
\* Unmanaged/Automatic or the Unmanaged/Manual strategy, nor the provider
\* step after it, changes any field of the bundle; a step of the
\* Managed/Automatic strategy changes at most issuerUrl, in the step in which
\* the registry Create call succeeds, to the URL the registry assigned, and
\* leaves every other field at its zero value.
C25_BundleImmutable == [][BundleFrame]_vars

\* the managed bundle after the registry assigned its URL
C25_Witness ==
    /\ strategy = "ManagedAuto"
    /\ pc = "afterExecute"
    /\ oidcConfigInput.IssuerUrl # ""
    /\ oidcConfigInput = [ZeroOidcConfigInput EXCEPT !.IssuerUrl = oidcConfigInput.IssuerUrl]

\* the selected strategy took all of its steps and none failed
StrategyCompleted ==
    /\ \A i \in 1..Len(calls) : calls[i].ok
    /\ CASE strategy = "UnmanagedAuto" ->
               /\ Len(ProvisioningCalls) = 5
               /\ Cardinality(ocmOidcConfigs) = 1
         [] strategy = "UnmanagedManual" ->
               /\ stdout # << >>
               /\ Cardinality(files) = 3
         [] strategy = "ManagedAuto" ->
               /\ Len(ProvisioningCalls) = 1
               /\ Cardinality(ocmOidcConfigs) = 1
         [] OTHER -> FALSE

\* C27: the provider-creation step runs at most once; when it has run, the
\* invocation is not in raw mode, the selected strategy took all its steps
\* without error, run has returned, and the step received the bundle's
\* issuer URL as it stood then: the bucket URL for the unmanaged Automatic
\* and Manual strategies, the URL the registry assigned for Managed. Before
\* run returns, and after an exit, the step has not run.
C27_ProviderStep ==
    /\ Len(providerRuns) <= 1
    /\ pc # "returned" => providerRuns = << >>
    /\ providerRuns # << >> =>
          /\ ~cmdline.rawFiles
          /\ strategy \in {"UnmanagedAuto", "UnmanagedManual", "ManagedAuto"}
          /\ StrategyCompleted
          /\ exitCode = 0
          /\ providerRuns[1].issuerUrl = oidcConfigInput.IssuerUrl
          /\ providerRuns[1].mode = mode
          /\ IF strategy = "ManagedAuto"
             THEN \E c \in ocmOidcConfigs : c.issuerUrl = providerRuns[1].issuerUrl
             ELSE providerRuns[1].issuerUrl
                     = "https://" \o oidcConfigInput.BucketName \o ".s3." \o args.region
                       \o ".amazonaws.com"
    /\ (pc = "returned" /\ ~cmdline.rawFiles) => Len(providerRuns) = 1

\* the provider step ran with the URL the registry assigned
C27_Witness ==
    /\ strategy = "ManagedAuto"
    /\ Len(providerRuns) = 1
    /\ providerRuns[1].issuerUrl # ""
    /\ oidcConfigInput.BucketName = ""

LocalStrategies == {"Raw", "UnmanagedAuto", "UnmanagedManual"}

\* C28: whenever the Raw, the Unmanaged/Automatic or the Unmanaged/Manual
\* strategy is selected, managed is false and the bundle's bucket name,
\* issuer URL, private key, discovery document and JWKS are populated; a
\* selected strategy whose bundle is the zero value is Managed/Automatic,
\* and Managed/Automatic is never given a built bundle.
C28_ZeroBundleOnlyManaged ==
    /\ strategy \in LocalStrategies =>
          /\ ~args.managed
          /\ ~cmdline.managed
          /\ oidcConfigInput.BucketName # ""
          /\ oidcConfigInput.IssuerUrl # ""
          /\ oidcConfigInput.PrivateKey # ""
          /\ oidcConfigInput.DiscoveryDocument # ""
          /\ oidcConfigInput.Jwks # ""
    /\ (strategy # "" /\ oidcConfigInput = ZeroOidcConfigInput) => strategy = "ManagedAuto"
    /\ strategy = "ManagedAuto" =>
          /\ args.managed
          /\ ~args.rawFiles
          /\ oidcConfigInput.BucketName = ""
          /\ oidcConfigInput.PrivateKey = ""

\* the Raw strategy at its first step, holding a built bundle
C28_Witness ==
    /\ strategy = "Raw"
    /\ pc = "raw.SavePrivateKey"
    /\ oidcConfigInput.Jwks # ""
    /\ oidcConfigInput.PrivateKey # ""

\* the file a printed command uploads, "" when it uploads none
UploadedFile(cmd) ==
    IF cmd.command = "put-object" THEN FileNameOf(Param(cmd, "body"))
    ELSE IF cmd.command = "create-secret" THEN FileNameOf(Param(cmd, "secret-string"))
    ELSE ""

\* the number of files the Manual strategy has saved when it is at, or has
\* exited at, a step
SavedBefore(step) ==
    CASE step = "manual.SavePrivateKey" -> 0
      [] step = "manual.SaveDiscoveryDocument" -> 1
      [] step = "manual.SaveJwks" -> 2

\* C29: commands are printed only by the Manual strategy and only once the
\* private key, the discovery document and the JWKS are all saved; when
\* saving a file fails the invocation has exited with code 1, nothing is
\* printed and the files saved before are still there; in the printed list
\* every rm of a file comes after the command that uploads that file, and
\* each of the three files is uploaded and then removed.
C29_CommandsAfterFiles ==
    /\ stdout # << >> =>
          /\ strategy = "UnmanagedManual"
          /\ { f.name : f \in files } = BundleFileNames
          /\ Cardinality(files) = 3
          /\ \A i \in 1..Len(stdout) :
                stdout[i].command = "rm" =>
                    \E j \in 1..(i - 1) : UploadedFile(stdout[j]) = Param(stdout[i], "file")
          /\ \A n \in BundleFileNames :
                \E i \in 1..Len(stdout) :
                    stdout[i].command = "rm" /\ Param(stdout[i], "file") = n
    /\ exitAt \in ManualSteps =>
          /\ pc = "exited"
          /\ exitCode = 1
          /\ stdout = << >>
          /\ Cardinality(files) = SavedBefore(exitAt)
          /\ \A f \in files : f.name \in BundleFileNames
    /\ (strategy = "UnmanagedManual" /\ pc \in ManualSteps) =>
          /\ stdout = << >>
          /\ Cardinality(files) = SavedBefore(pc)

\* saving the JWKS failed after the other two files were saved
C29_Witness ==
    /\ exitAt = "manual.SaveJwks"
    /\ Cardinality(files) = 2
    /\ stdout = << >>

====
